---- MODULE Spec2Model ----
(***************************************************************************)
(* Search orchestration of Fraim Context MCP: SearchService.search, the    *)
(* Redis CacheClient, the EmbeddingClient, the Reranker, the SearchRequest *)
(* validation and the HTTP error translation.                              *)
(*                                                                         *)
(* Strings are tokens; a Python None is the empty sequence <<>> and a      *)
(* present value x is <<x>> where both occur in one place.  Floats in      *)
(* [0,1] are integer hundredths.  latency_ms is wall-clock time and is not *)
(* modelled.                                                               *)
(***************************************************************************)
EXTENDS Integers, Sequences, FiniteSets, TLC

\* ---------------------------------------------------------------- bounds
NSlots == 2
MaxRequests == 2
MaxVersion == 2
MaxBatch == 2
MaxDocs == 2
MaxTopK == 3

\* ------------------------------------------------------ program constants
DIMENSION == 1024
DEFAULT_TTL == 3600
QueryMinLen == 1
QueryMaxLen == 1000
ProjectIdMinLen == 1
ProjectIdMaxLen == 100
TopKMin == 1
TopKMax == 50

None == "None"

\* ------------------------------------------------------------ input sets
\* Query texts; StrLen gives the number of characters of each token.
ValidQueries == {"q1", "q2"}
Queries == ValidQueries \cup {"", "q_long"}

\* Tenant identifiers as the caller supplies them.
ValidIdents == {"alpha", "beta", "U1", "missing"}
\* The identifiers whose cache entries are invalidated in bulk.
InvalidatedIdents == {"alpha"}
Idents == ValidIdents \cup {"", "p_long"}

Categories == {None, "api"}

StrLen(s) ==
    CASE s = "" -> 0
      [] s = "q_long" -> 1001
      [] s = "p_long" -> 101
      [] OTHER -> 5

\* ------------------------------------------------------------- storage
\* projects table: durable id and unique slug.
Projects == { [id |-> "U1", slug |-> "alpha"], [id |-> "U2", slug |-> "beta"] }
ProjectUUIDs == { p.id : p \in Projects }

\* documents table.
Documents ==
    [ d1 |-> [project_id |-> "U1", path |-> "/a/general.md", title |-> <<>>,      category |-> "general"],
      d2 |-> [project_id |-> "U1", path |-> "/a/api.md",     title |-> <<"API">>, category |-> "api"],
      d3 |-> [project_id |-> "U2", path |-> "/b/general.md", title |-> <<>>,      category |-> "general"] ]

\* chunks table (the rows that can exist); `present` says which do.
Chunks ==
    [ c1 |-> [document_id |-> "d1", project_id |-> "U1", chunk_index |-> 0],
      c2 |-> [document_id |-> "d2", project_id |-> "U1", chunk_index |-> 0],
      c3 |-> [document_id |-> "d2", project_id |-> "U1", chunk_index |-> 1],
      c4 |-> [document_id |-> "d3", project_id |-> "U2", chunk_index |-> 0] ]
ChunkIds == DOMAIN Chunks
InitialChunks == {"c1", "c2", "c4"}

\* Fused score of the storage engine's hybrid query, in hundredths.
FusedScore(c, q) ==
    CASE c = "c1" -> IF q = "q1" THEN 90 ELSE 40
      [] c = "c2" -> IF q = "q1" THEN 80 ELSE 60
      [] c = "c3" -> IF q = "q1" THEN 85 ELSE 0
      [] c = "c4" -> 70

\* Relevance the FlashRank cross-encoder gives a passage, in hundredths.
RankerScore(c, q) ==
    CASE c = "c1" -> 20
      [] c = "c2" -> 95
      [] c = "c3" -> 50
      [] c = "c4" -> 60

\* ------------------------------------------------------------ sequences
RECURSIVE OrderByFused(_, _)
\* ORDER BY score DESC of the storage query: the chunk set S as a sequence.
OrderByFused(S, q) ==
    IF S = {} THEN <<>>
    ELSE LET best == CHOOSE x \in S : \A y \in S : FusedScore(x, q) >= FusedScore(y, q)
         IN <<best>> \o OrderByFused(S \ {best}, q)

Take(s, n) == SubSeq(s, 1, IF n < Len(s) THEN n ELSE Len(s))

Range(s) == { s[i] : i \in DOMAIN s }

\* --------------------------------------------------------------- UUIDs
\* uuid.UUID(s): the strings that parse, and the value they parse to.
ParsesAsUUID(s) == s \in {"U1", "U2", "U3", "c1", "c2", "c3", "c4", "d1", "d2", "d3"}
UUID(s) == <<"UUID", s>>
\* str(u) of a UUID value.
StrOfUUID(u) == u[2]

\* ------------------------------------------------- database/models.py
\* Mutant: top_k's upper bound is off by one.
ValidSearchRequest_OffByOne(request) ==
    /\ StrLen(request.query) >= QueryMinLen
    /\ StrLen(request.query) <= QueryMaxLen
    /\ StrLen(request.project_id) >= ProjectIdMinLen
    /\ StrLen(request.project_id) <= ProjectIdMaxLen
    /\ request.top_k >= TopKMin
    /\ request.top_k <= TopKMax + 1

\* SearchRequest field constraints (pydantic Field(...)).
ValidSearchRequest(request) ==
    /\ StrLen(request.query) >= QueryMinLen
    /\ StrLen(request.query) <= QueryMaxLen
    /\ StrLen(request.project_id) >= ProjectIdMinLen
    /\ StrLen(request.project_id) <= ProjectIdMaxLen
    /\ request.top_k >= TopKMin
    /\ request.top_k <= TopKMax

Req(q, p, k, c, r) ==
    [query |-> q, project_id |-> p, top_k |-> k, category |-> c, use_reranker |-> r]

\* The request bodies the callers send.
WellFormedRequests ==
    { Req("q1", "alpha", 1, None, TRUE),
      Req("q1", "alpha", 1, "api", TRUE),
      Req("q1", "U1", 1, None, TRUE),
      Req("q1", "beta", 1, None, TRUE),
      Req("q1", "beta", 1, "api", FALSE),
      Req("q1", "missing", 1, None, TRUE),
      Req("q1", "alpha", 2, None, FALSE),
      Req("q2", "alpha", 1, None, TRUE) }
MalformedRequests ==
    { Req("", "alpha", 1, None, TRUE),
      Req("q_long", "alpha", 1, None, TRUE),
      Req("q1", "", 1, None, TRUE),
      Req("q1", "p_long", 1, None, TRUE),
      Req("q1", "alpha", 0, None, TRUE),
      Req("q1", "alpha", 51, None, TRUE) }
SearchRequests == WellFormedRequests \cup MalformedRequests

\* The requests of the concurrent callers: one tenant by slug, with and
\* without a category filter, and by UUID, and a second tenant.
ConcurrentRequests ==
    { Req("q1", "alpha", 1, None, FALSE),
      Req("q1", "alpha", 1, "api", FALSE),
      Req("q1", "U1", 1, None, TRUE),
      Req("q1", "beta", 1, None, TRUE) }

\* The requests of the callers whose cache entries are invalidated.
InvalidatedRequests ==
    { Req("q1", "alpha", 1, None, TRUE),
      Req("q1", "alpha", 2, None, FALSE) }

\* The requests of the callers of a tenant none of whose documents is in
\* the requested category, with the unfiltered request beside it.
EmptyResultRequests ==
    { Req("q1", "beta", 1, "api", TRUE),
      Req("q1", "beta", 1, None, TRUE) }

\* The requests sent while the application starts: one asking for
\* reranking, one not.
StartupRequests ==
    { Req("q1", "alpha", 1, None, TRUE),
      Req("q1", "alpha", 1, None, FALSE) }

\* The requests of a caller of the embedding client.
EmbeddingRequests ==
    { Req("q1", "alpha", 1, None, TRUE),
      Req("q2", "alpha", 1, None, TRUE) }

\* ChunkResult field constraints: score: float = Field(ge=0, le=1).
ValidChunkResult(r) == r.score >= 0 /\ r.score <= 100

\* ------------------------------------------------ cache/redis_client.py
\* The queries given to generate_cache_key directly. "q1x" is a query other
\* than "q1" whose digest begins with the same 16 hexadecimal digits: there
\* are 16^16 such prefixes and more query texts than that, so some two
\* queries share one.
KeyQueries == ValidQueries \cup {"q1x"}
PrefixTwin(query) == IF query = "q1x" THEN "q1" ELSE query

\* Length of a SHA-256 hexdigest, and of the prefix the key keeps.
HexDigestLen == 64
HashLen == 16

\* Reranker.DEFAULT_MODEL.
DEFAULT_MODEL == "ms-marco-MiniLM-L-12-v2"

\* hashlib.sha256(query.encode()).hexdigest(): the i-th hexadecimal digit of
\* the digest of `query`, as a symbol.
Sha256Hex(query) ==
    [ i \in 1..HexDigestLen |->
        IF i <= HashLen THEN <<"hex", PrefixTwin(query), i>> ELSE <<"hex", query, i>> ]

\* Mutant: the whole digest is kept.
QueryHash_Untruncated(query) == Sha256Hex(query)

\* hashlib.sha256(query.encode()).hexdigest()[:16]
QueryHash(query) == SubSeq(Sha256Hex(query), 1, HashLen)

\* Mutant: the key leaves out the corpus version.
generate_cache_key_NoVersion(project_id, corpus_version, query) ==
    <<"fraim", project_id, 0, "search", QueryHash(query)>>

\* Mutant: the key leaves out the project.
generate_cache_key_NoProject(project_id, corpus_version, query) ==
    <<"fraim", "", corpus_version, "search", QueryHash(query)>>

generate_cache_key(project_id, corpus_version, query) ==
    <<"fraim", project_id, corpus_version, "search", QueryHash(query)>>

\* json.dumps / json.loads of the cached payload.
JsonDumps(value) == <<"json", value>>
JsonLoads(text) == text[2]
\* json.loads accepts the text: it is a JSON document.
IsJson(text) == text[1] = "json"

\* Redis MATCH of the glob "fraim:{project_id}:*" against a stored key.
ProjectPattern(project_id) == <<"fraim", project_id, "*">>
KeyMatches(pattern, key) == key[1] = pattern[1] /\ key[2] = pattern[2]

\* ------------------------------------------------ retrieval/service.py
\* Mutant: an identifier that matches nothing resolves to some project.
LookupProject_Fallback(project_id) ==
    LET bySlug == { p \in Projects : p.slug = project_id }
        byId   == IF ParsesAsUUID(project_id)
                  THEN { p \in Projects : p.id = project_id }
                  ELSE {}
    IN IF bySlug # {} THEN <<CHOOSE p \in bySlug : TRUE>>
       ELSE IF byId # {} THEN <<CHOOSE p \in byId : TRUE>>
       ELSE <<CHOOSE p \in Projects : TRUE>>

\* Mutant: the id lookup is made before the slug lookup.
get_project_info_IdFirst(projects, project_id) ==
    LET bySlug == { p \in projects : p.slug = project_id }
        byId   == IF ParsesAsUUID(project_id)
                  THEN { p \in projects : p.id = project_id }
                  ELSE {}
    IN IF byId # {} THEN [selects |-> <<"id">>, row |-> <<CHOOSE p \in byId : TRUE>>]
       ELSE [selects |-> <<"id", "slug">>,
             row |-> IF bySlug # {} THEN <<CHOOSE p \in bySlug : TRUE>> ELSE <<>>]

\* _get_project_info over the rows of `projects`: SELECT ... WHERE slug = $1;
\* when it finds no row and UUID(project_id) parses, SELECT ... WHERE id = $1.
\* `selects` lists the lookups made, `row` is <<>> (ValueError, project not
\* found) or <<row>>.
get_project_info(projects, project_id) ==
    LET bySlug == { p \in projects : p.slug = project_id }
        byId   == { p \in projects : p.id = project_id }
    IN IF bySlug # {}
       THEN [selects |-> <<"slug">>, row |-> <<CHOOSE p \in bySlug : TRUE>>]
       ELSE IF ParsesAsUUID(project_id)
       THEN [selects |-> <<"slug", "id">>,
             row |-> IF byId # {} THEN <<CHOOSE p \in byId : TRUE>> ELSE <<>>]
       ELSE [selects |-> <<"slug">>, row |-> <<>>]

\* The row _get_project_info finds in the projects table, <<>> when none.
LookupProject(project_id) == get_project_info(Projects, project_id).row

\* Stored procedure hybrid_search(project, embedding, query, limit, category)
\* over the chunks in `chunks`.
hybrid_search(chunks, project_uuid, query, limit, category) ==
    LET matched == { c \in chunks :
                        /\ Chunks[c].project_id = project_uuid
                        /\ (category = None
                            \/ Documents[Chunks[c].document_id].category = category) }
        ordered == Take(OrderByFused(matched, query), limit)
    IN [ i \in DOMAIN ordered |->
            [chunk_id |-> UUID(ordered[i]),
             document_id |-> UUID(Chunks[ordered[i]].document_id),
             content |-> <<"text", ordered[i]>>,
             score |-> FusedScore(ordered[i], query)] ]

\* rows -> documents (service.py 133-142).
RowToDoc(row) ==
    [id |-> StrOfUUID(row.chunk_id),
     document_id |-> StrOfUUID(row.document_id),
     content |-> row.content,
     score |-> IF row.score # 0 THEN row.score ELSE 0]
RowsToDocuments(rows) == [ i \in DOMAIN rows |-> RowToDoc(rows[i]) ]

\* ----------------------------------------------- retrieval/reranker.py
\* Relevance the cross-encoder gives a passage text; a text that is no
\* chunk's content (the empty default among them) scores 10.
TextScore(text, query) ==
    IF text[2] \in ChunkIds THEN RankerScore(text[2], query) ELSE 10

\* doc.get("id", str(i)) and doc.get("content", "") of the i-th document
\* (i counts from 1 here, from 0 in the code).
PassageId(documents, i) ==
    IF "id" \in DOMAIN documents[i] THEN documents[i].id ELSE ToString(i - 1)
PassageText(documents, i) ==
    IF "content" \in DOMAIN documents[i] THEN documents[i].content ELSE <<"text", "">>

RECURSIVE RankOrder(_, _, _)
\* FlashRank's Ranker.rerank: one result per passage, by descending score,
\* passages of equal score in their input order. The passages are named by
\* their index in `documents`.
RankOrder(I, documents, query) ==
    IF I = {} THEN <<>>
    ELSE LET sc(i) == TextScore(PassageText(documents, i), query)
             best == CHOOSE i \in I :
                        \A j \in I : sc(i) > sc(j) \/ (sc(i) = sc(j) /\ i <= j)
         IN <<best>> \o RankOrder(I \ {best}, documents, query)

\* Mutant: the model is called for an empty list too.
RankerCalls_NoEarlyReturn(documents) == 1

\* Number of calls of self._ranker.rerank that rerank(_, documents, _) makes.
RankerCalls(documents) == IF documents = <<>> THEN 0 ELSE 1

\* Mutant: the output records are rebuilt from the passage fields.
rerank_PassageFieldsOnly(query, documents, top_k) ==
    IF documents = <<>> THEN <<>>
    ELSE LET results == Take(RankOrder(DOMAIN documents, documents, query), top_k)
         IN [ k \in DOMAIN results |->
                [id |-> PassageId(documents, results[k]),
                 content |-> PassageText(documents, results[k]),
                 rerank_score |-> TextScore(PassageText(documents, results[k]), query)] ]

\* Mutant: every result is returned, top_k ignored.
rerank_Unsliced(query, documents, top_k) ==
    IF documents = <<>> THEN <<>>
    ELSE LET id_to_doc(x) == documents[CHOOSE i \in DOMAIN documents :
                                 /\ PassageId(documents, i) = x
                                 /\ \A j \in DOMAIN documents :
                                       PassageId(documents, j) = x => j <= i]
             results == RankOrder(DOMAIN documents, documents, query)
         IN [ k \in DOMAIN results |->
                ("rerank_score" :> TextScore(PassageText(documents, results[k]), query))
                    @@ id_to_doc(PassageId(documents, results[k])) ]

\* Reranker.rerank for top_k >= 0. id_to_doc keeps the last document of
\* each id; a result whose id is empty is looked up as None and dropped.
rerank(query, documents, top_k) ==
    IF documents = <<>> THEN <<>>
    ELSE LET id_to_doc(x) == documents[CHOOSE i \in DOMAIN documents :
                                 /\ PassageId(documents, i) = x
                                 /\ \A j \in DOMAIN documents :
                                       PassageId(documents, j) = x => j <= i]
             results == Take(RankOrder(DOMAIN documents, documents, query), top_k)
             found(i) == PassageId(documents, i) # ""
             kept == SelectSeq(results, found)
         IN [ k \in DOMAIN kept |->
                ("rerank_score" :> TextScore(PassageText(documents, kept[k]), query))
                    @@ id_to_doc(PassageId(documents, kept[k])) ]

\* Candidates handed to Reranker.rerank directly: a candidate as the search
\* builds it, one with further fields, one with the same id and a
\* rerank_score already, one without an id, and one without content whose
\* id is an index.
Candidates ==
    { [id |-> "c1", document_id |-> "d1", content |-> <<"text", "c1">>, score |-> 90],
      [id |-> "c2", content |-> <<"text", "c2">>, document_path |-> "docs/test.md",
       custom_field |-> "preserved"],
      [id |-> "c2", content |-> <<"text", "c3">>, rerank_score |-> 5],
      [content |-> <<"text", "c4">>],
      [id |-> "1"] }

RECURSIVE SeqsUpTo(_, _)
\* The sequences of at most n elements of S.
SeqsUpTo(S, n) ==
    IF n = 0 THEN { <<>> }
    ELSE LET shorter == SeqsUpTo(S, n - 1)
         IN shorter \cup { Append(q, x) : q \in shorter, x \in S }

\* doc.get("rerank_score", doc.get("score", 0.0))
\* Mutant: the fused score is preferred to the rerank score.
DocScore_FusedFirst(doc) ==
    IF "score" \in DOMAIN doc THEN doc.score
    ELSE IF "rerank_score" \in DOMAIN doc THEN doc.rerank_score
    ELSE 0

DocScore(doc) ==
    IF "rerank_score" \in DOMAIN doc THEN doc.rerank_score
    ELSE IF "score" \in DOMAIN doc THEN doc.score
    ELSE 0

\* The metadata query: chunk id -> its document's path, title, category,
\* for the ids in chunk_ids that exist in `chunks`.
ChunkInfo(chunks, chunk_ids) ==
    [ c \in { StrOfUUID(u) : u \in { v \in chunk_ids : StrOfUUID(v) \in chunks } } |->
        Documents[Chunks[c].document_id] ]

\* ChunkResult(...) of service.py 175-184.
BuildResult(doc, chunk_map) ==
    [id |-> UUID(doc.id),
     document_id |-> UUID(doc.document_id),
     content |-> doc.content,
     score |-> DocScore(doc),
     document_path |-> IF doc.id \in DOMAIN chunk_map THEN chunk_map[doc.id].path ELSE "",
     document_title |-> IF doc.id \in DOMAIN chunk_map THEN chunk_map[doc.id].title ELSE <<>>,
     category |-> IF doc.id \in DOMAIN chunk_map THEN chunk_map[doc.id].category ELSE "general",
     chunk_index |-> 0,
     metadata |-> <<>>]

\* r.model_dump(mode="json"): UUID fields become strings.
ModelDump(r) == [r EXCEPT !.id = StrOfUUID(r.id), !.document_id = StrOfUUID(r.document_id)]
\* ChunkResult(**r): string fields are parsed back to UUID.
ChunkResultFromDict(d) == [d EXCEPT !.id = UUID(d.id), !.document_id = UUID(d.document_id)]

\* [r.model_dump(mode="json") for r in results]
DumpResults(results) == [ i \in DOMAIN results |-> ModelDump(results[i]) ]
\* [ChunkResult(**r) for r in cached["results"]]
LoadResults(dicts) == [ i \in DOMAIN dicts |-> ChunkResultFromDict(dicts[i]) ]

\* --------------------------------------------- ingestion/embeddings.py
\* A provider response is the sequence of the lengths of the vectors it
\* returned.  embed / embed_batch return <<"ok", vectors>> or raise.
\* Mutant: the length of the provider's vector is not checked.
embed_Unchecked(response) ==
    [raised |-> FALSE, cls |-> None, msg |-> None, value |-> <<response[1]>>]

embed(response) ==
    IF response[1] # DIMENSION
    THEN [raised |-> TRUE, cls |-> "ValueError", msg |-> "HARD CONTRACT VIOLATION", value |-> <<>>]
    ELSE [raised |-> FALSE, cls |-> None, msg |-> None, value |-> <<response[1]>>]

embed_batch(texts, response) ==
    IF texts = <<>>
    THEN [raised |-> FALSE, cls |-> None, msg |-> None, value |-> <<>>]
    ELSE IF \E i \in DOMAIN response : response[i] # DIMENSION
    THEN [raised |-> TRUE, cls |-> "ValueError", msg |-> "HARD CONTRACT VIOLATION", value |-> <<>>]
    ELSE [raised |-> FALSE, cls |-> None, msg |-> None, value |-> response]

\* ---------------------------------------------- server/http_server.py
\* isinstance(e, ValueError): pydantic's ValidationError derives from
\* ValueError.
IsValueError(cls) == cls \in {"ValueError", "ValidationError"}
\* The except clauses of the search route.
HTTPStatus(cls) == IF IsValueError(cls) THEN 404 ELSE 500

\* =================================================================== state
VARIABLES
    version,    \* projects.corpus_version, by project id
    present,    \* ids of the chunk rows that exist
    redisUp,    \* the Redis server answers commands
    client,     \* CacheClient._client is not None
    store,      \* Redis: key -> stored entry
    slot,       \* the in-flight search requests, one per slot
    nreq,       \* number of requests submitted so far
    inval,      \* a running pattern delete
    batch,      \* the last embed_batch call and its outcome
    hist,       \* history variables used to state properties
    probe,      \* the latest direct calls of a function, newest first
    svc,        \* the application's SearchService and the reranker model
    busy,       \* pool connections checked out by the other coroutines of the process
    silent,     \* the cache store accepts commands and never replies
    dbPool      \* DatabaseClient._pool is not None

vars == <<version, present, redisUp, client, store, slot, nreq, inval, batch, hist, probe, svc,
         busy, silent, dbPool>>

Slots == 1..NSlots

ZeroCalls == [resolve |-> 0, get |-> 0, embed |-> 0, search |-> 0,
              rerank |-> 0, meta |-> 0, set |-> 0]

NoExc == [cls |-> None, msg |-> None, kind |-> None]

\* History fields of one request.
NoGhost ==
    [pred |-> <<>>,         \* response of an identical request completed before this one started
     quiet |-> FALSE,       \* nothing changed the cache or a version since the request began
     clean |-> FALSE,       \* ... nor since it completed with the cache reachable
     first |-> FALSE,       \* first cache read under the tenant's new version after a change
     next |-> FALSE,        \* first request of its project_id after an invalidation that followed an ingestion
     floor |-> {},          \* chunks present when that invalidation began
     docs |-> {},           \* chunks the results were computed from
     data_version |-> 0,    \* the tenant's version when they were computed
     search_args |-> <<>>,  \* arguments the hybrid search was issued with
     entry |-> <<>>,        \* history of the cache entry a hit was served from
     get_failed |-> FALSE,  \* the cache read of this request could not be served
     provider_len |-> 0]    \* length of the vector the provider returned

IdleSlot ==
    [pc |-> "idle", request |-> <<>>, project_uuid |-> None, corpus_version |-> 0,
     cache_key |-> <<>>, query_embedding |-> <<>>, total_found |-> 0,
     documents |-> <<>>, results |-> <<>>, response |-> <<>>,
     exc |-> NoExc, status |-> 0, calls |-> ZeroCalls, g |-> NoGhost,
     conn |-> 0,           \* pool connections the request has checked out
     in_block |-> FALSE]   \* inside an `async with pool.acquire()` block

NoInval == [pc |-> "idle", pattern |-> <<>>, todo |-> {}, floor |-> {}]
NoBatch == [texts |-> 0, response |-> <<>>, out |-> None, value |-> <<>>]

Init ==
    /\ version = [p \in ProjectUUIDs |-> 1]
    /\ present = InitialChunks
    /\ redisUp = TRUE
    /\ client = TRUE
    /\ store = <<>>
    /\ slot = [s \in Slots |-> IdleSlot]
    /\ nreq = 0
    /\ inval = NoInval
    /\ batch = NoBatch
    /\ hist = [bumped |-> {}, invalidated |-> <<>>, floor |-> {}]
    /\ probe = <<>>
    /\ svc = [state |-> "ready", loadable |-> TRUE, ranker |-> <<DEFAULT_MODEL>>, loads |-> 1]
    /\ busy = 0
    /\ silent = FALSE
    /\ dbPool = TRUE

\* Every request loses its `quiet` and `clean` marks: the cache or a version
\* changed.
Disturb(sl) == [s \in Slots |-> [sl[s] EXCEPT !.g.clean = FALSE, !.g.quiet = FALSE]]

\* Mutant: a failure is answered with an empty result set presented as a
\* success.
Fail_Fabricates(rec, cls, msg, kind, status) ==
    [rec EXCEPT !.pc = "failed",
                !.exc = [cls |-> cls, msg |-> msg, kind |-> kind],
                !.status = status,
                !.response = <<[results |-> <<>>, query |-> rec.request[1].query,
                                project_id |-> rec.request[1].project_id,
                                total_found |-> 0, cache_hit |-> FALSE,
                                corpus_version |-> rec.corpus_version]>>,
                !.query_embedding = <<>>, !.documents = <<>>, !.results = <<>>]

Fail(rec, cls, msg, kind, status) ==
    [rec EXCEPT !.pc = "failed",
                !.exc = [cls |-> cls, msg |-> msg, kind |-> kind],
                !.status = status,
                !.query_embedding = <<>>, !.documents = <<>>, !.results = <<>>]

\* Reranker._load_model: self._ranker = Ranker(model_name=self._model_name).
load_model(sv) == [sv EXCEPT !.ranker = <<DEFAULT_MODEL>>, !.loads = @ + 1]

\* Mutant: every rerank call loads the model.
ensure_loaded_Reloads(sv, documents) ==
    IF documents = <<>> THEN sv ELSE load_model(sv)

\* The part of Reranker.rerank before the ranking: nothing for an empty
\* list, else `if self._ranker is None: self._load_model()`.
ensure_loaded(sv, documents) ==
    IF documents = <<>> THEN sv
    ELSE IF sv.ranker = <<>> THEN load_model(sv)
    ELSE sv

\* The state before the application has built its SearchService; the
\* reranker model can be loaded or not.
InitStartup ==
    /\ version = [p \in ProjectUUIDs |-> 1]
    /\ present = InitialChunks
    /\ redisUp = TRUE
    /\ client = TRUE
    /\ store = <<>>
    /\ slot = [s \in Slots |-> IdleSlot]
    /\ nreq = 0
    /\ inval = NoInval
    /\ batch = NoBatch
    /\ hist = [bumped |-> {}, invalidated |-> <<>>, floor |-> {}]
    /\ probe = <<>>
    /\ svc \in { [state |-> "none", loadable |-> l, ranker |-> <<>>, loads |-> 0] : l \in BOOLEAN }
    /\ busy = 0
    /\ silent = FALSE
    /\ dbPool = TRUE

\* SearchService(db_client, cache_client, embedding_client) as lifespan calls
\* it: `reranker or Reranker()` runs Reranker.__init__, which loads the
\* model; an exception of the load leaves no service.
Construct ==
    /\ svc.state = "none"
    /\ svc' = IF svc.loadable
              THEN [load_model(svc) EXCEPT !.state = "ready"]
              ELSE [svc EXCEPT !.state = "failed"]
    /\ UNCHANGED <<version, present, redisUp, client, store, slot, nreq, inval,
                   batch, hist, probe, busy, silent, dbPool>>

\* ------------------------------------------------------ the storage pool
\* asyncpg.create_pool(min_size=2, max_size=10): the connections the pool
\* hands out at once.
PoolMaxSize == 10

RECURSIVE SumConn(_, _)
SumConn(sl, S) ==
    IF S = {} THEN 0
    ELSE LET s == CHOOSE x \in S : TRUE IN sl[s].conn + SumConn(sl, S \ {s})

\* Connections checked out of the pool.
CheckedOut == busy + SumConn(slot, DOMAIN slot)

\* The steps of search that run inside `async with self._db._pool.acquire()`.
DbSteps == {"resolve", "search", "meta"}

\* Mutant: an exception leaves the block without the connection being
\* returned.
Release_OnSuccessOnly(rec) ==
    IF rec.pc = "failed" THEN [rec EXCEPT !.in_block = FALSE]
    ELSE [rec EXCEPT !.conn = @ - 1, !.in_block = FALSE]

\* Mutant: the block of _get_project_info stays open over the cache check.
Release_AfterCacheCheck(rec) ==
    IF rec.pc = "cache_get" THEN [rec EXCEPT !.in_block = FALSE]
    ELSE [rec EXCEPT !.conn = @ - 1, !.in_block = FALSE]

\* Leaving an `async with self._db._pool.acquire() as conn` block, by its end,
\* by a return or by an exception: the connection goes back to the pool.
Release(rec) == [rec EXCEPT !.conn = @ - 1, !.in_block = FALSE]

\* Mutant: the pool hands out connections without a limit.
Acquire_Unbounded(s) ==
    /\ slot[s].pc \in DbSteps
    /\ ~slot[s].in_block
    /\ slot' = [slot EXCEPT ![s] = [@ EXCEPT !.conn = @ + 1, !.in_block = TRUE]]
    /\ UNCHANGED <<probe, svc, busy, silent, dbPool, version, present, redisUp, client, store, nreq, inval, batch, hist>>

\* Entering an `async with self._db._pool.acquire() as conn` block: the
\* coroutine waits until the pool has a connection to hand out.
Acquire(s) ==
    /\ slot[s].pc \in DbSteps
    /\ ~slot[s].in_block
    /\ CheckedOut < PoolMaxSize
    /\ slot' = [slot EXCEPT ![s] = [@ EXCEPT !.conn = @ + 1, !.in_block = TRUE]]
    /\ UNCHANGED <<probe, svc, busy, silent, dbPool, version, present, redisUp, client, store, nreq, inval, batch, hist>>

\* Another coroutine of the process enters such a block ...
AcquireOther ==
    /\ CheckedOut < PoolMaxSize
    /\ busy' = busy + 1
    /\ UNCHANGED <<probe, svc, silent, dbPool, version, present, redisUp, client, store, slot, nreq, inval, batch, hist>>

\* ... and leaves it.
ReleaseOther ==
    /\ busy > 0
    /\ busy' = busy - 1
    /\ UNCHANGED <<probe, svc, silent, dbPool, version, present, redisUp, client, store, slot, nreq, inval, batch, hist>>

\* The cache store stops replying: the redis client was created without a
\* socket timeout, so a command sent from now on is never answered.
RedisHang ==
    /\ ~silent
    /\ silent' = TRUE
    /\ UNCHANGED <<probe, svc, busy, dbPool, version, present, redisUp, client, store, slot, nreq, inval, batch, hist>>

\* `await self._cache.get/set` returns: at once without a client, else when
\* the store has replied or the command has raised.
CacheReturns == ~client \/ ~silent

\* ---------------------------------------------------- CacheClient methods
\* self._client.get(key) against the server: raises when it is unreachable.
RedisGet(key) ==
    IF ~redisUp THEN [raised |-> TRUE, value |-> <<>>]
    ELSE IF key \in DOMAIN store THEN [raised |-> FALSE, value |-> <<store[key].value>>]
    ELSE [raised |-> FALSE, value |-> <<>>]

\* Mutant: get without its try/except.
get_Unguarded(key) ==
    IF ~client THEN [raised |-> FALSE, value |-> <<>>]
    ELSE LET r == RedisGet(key)
         IN IF r.raised THEN [raised |-> TRUE, value |-> <<>>]
            ELSE IF r.value = <<>> THEN [raised |-> FALSE, value |-> <<>>]
            ELSE IF ~IsJson(r.value[1]) THEN [raised |-> TRUE, value |-> <<>>]
            ELSE [raised |-> FALSE, value |-> <<JsonLoads(r.value[1])>>]

\* CacheClient.get: <<>> for None, <<value>> otherwise; raised is what
\* escapes to the caller.
get(key) ==
    IF ~client THEN [raised |-> FALSE, value |-> <<>>]
    ELSE LET r == RedisGet(key)
         IN IF r.raised THEN [raised |-> FALSE, value |-> <<>>]
            ELSE IF r.value = <<>> THEN [raised |-> FALSE, value |-> <<>>]
            ELSE IF ~IsJson(r.value[1]) THEN [raised |-> FALSE, value |-> <<>>]
            ELSE [raised |-> FALSE, value |-> <<JsonLoads(r.value[1])>>]

\* Mutant: set without the DEFAULT_TTL fallback.
set_NoDefaultTTL(key, value, ttl, ghost) ==
    IF ~client THEN [raised |-> FALSE, ok |-> FALSE, store |-> store]
    ELSE IF ~redisUp THEN [raised |-> FALSE, ok |-> FALSE, store |-> store]
    ELSE [raised |-> FALSE, ok |-> TRUE,
          store |-> (key :> [value |-> JsonDumps(value),
                             ex |-> IF ttl # <<>> THEN ttl[1] ELSE 0,
                             ghost |-> ghost])
                    @@ store]

\* CacheClient.set: the new store, the returned bool, and what escapes.
set(key, value, ttl, ghost) ==
    IF ~client THEN [raised |-> FALSE, ok |-> FALSE, store |-> store]
    ELSE IF ~redisUp THEN [raised |-> FALSE, ok |-> FALSE, store |-> store]
    ELSE [raised |-> FALSE, ok |-> TRUE,
          store |-> (key :> [value |-> JsonDumps(value),
                             ex |-> IF ttl # <<>> /\ ttl[1] # 0 THEN ttl[1] ELSE DEFAULT_TTL,
                             ghost |-> ghost])
                    @@ store]

Remove(st, key) == [k \in (DOMAIN st) \ {key} |-> st[k]]

\* `"*" in key`.
IsPattern(key) == key[Len(key)] = "*"

\* Mutant: delete without its try/except.
delete_Unguarded(key) ==
    IF ~client THEN [raised |-> FALSE, ok |-> FALSE, store |-> store]
    ELSE IF ~redisUp THEN [raised |-> TRUE, ok |-> FALSE, store |-> store]
    ELSE IF IsPattern(key)
    THEN [raised |-> FALSE, ok |-> TRUE,
          store |-> [k \in { x \in DOMAIN store : ~KeyMatches(key, x) } |-> store[k]]]
    ELSE [raised |-> FALSE, ok |-> TRUE, store |-> Remove(store, key)]

\* Mutant: a pattern is deleted as if it were a key.
delete_PatternAsKey(key) ==
    IF ~client THEN [raised |-> FALSE, ok |-> FALSE, store |-> store]
    ELSE IF ~redisUp THEN [raised |-> FALSE, ok |-> FALSE, store |-> store]
    ELSE [raised |-> FALSE, ok |-> TRUE, store |-> Remove(store, key)]

\* CacheClient.delete run to its end with no other command in between: the
\* new store, the returned bool, and what escapes.
delete(key) ==
    IF ~client THEN [raised |-> FALSE, ok |-> FALSE, store |-> store]
    ELSE IF ~redisUp THEN [raised |-> FALSE, ok |-> FALSE, store |-> store]
    ELSE IF IsPattern(key)
    THEN [raised |-> FALSE, ok |-> TRUE,
          store |-> [k \in { x \in DOMAIN store : ~KeyMatches(key, x) } |-> store[k]]]
    ELSE [raised |-> FALSE, ok |-> TRUE, store |-> Remove(store, key)]

\* CacheClient.ping.
ping ==
    IF ~client THEN [raised |-> FALSE, value |-> FALSE]
    ELSE IF ~redisUp THEN [raised |-> FALSE, value |-> FALSE]
    ELSE [raised |-> FALSE, value |-> TRUE]

\* ------------------------------------------------------- the search route
\* POST /api/v1/search: the body is validated into a SearchRequest before
\* the handler runs; the handler calls SearchService.search.
Submit(s, request) ==
    /\ slot[s].pc = "idle"
    /\ \A o \in Slots : o < s => slot[o].pc # "idle"
    /\ nreq < MaxRequests
    /\ nreq' = nreq + 1
    /\ LET preds == { o \in Slots : /\ slot[o].pc = "done"
                                    /\ slot[o].request = <<request>>
                                    /\ slot[o].g.clean }
           start == [IdleSlot EXCEPT
                        !.request = <<request>>,
                        !.g.pred = IF preds = {} THEN <<>>
                                   ELSE slot[CHOOSE o \in preds : TRUE].response,
                        !.g.quiet = TRUE,
                        !.g.next = (hist.invalidated = <<request.project_id>>),
                        !.g.floor = IF hist.invalidated = <<request.project_id>>
                                    THEN hist.floor ELSE {}]
       IN \/ /\ ~ValidSearchRequest(request)
             /\ slot' = [slot EXCEPT ![s] =
                    Fail(start, "RequestValidationError", "validation", "validation", 422)]
             /\ hist' = hist
          \/ /\ ValidSearchRequest(request)
             /\ svc.state # "ready"
             /\ slot' = [slot EXCEPT ![s] =
                    Fail(start, "HTTPException", "Search service not initialized",
                         "not_initialized", 503)]
             /\ hist' = hist
          \/ /\ ValidSearchRequest(request)
             /\ svc.state = "ready"
             /\ slot' = [slot EXCEPT ![s] = [start EXCEPT !.pc = "resolve"]]
             /\ hist' = IF hist.invalidated = <<request.project_id>>
                        THEN [hist EXCEPT !.invalidated = <<>>, !.floor = {}]
                        ELSE hist
    /\ UNCHANGED <<probe, svc, busy, silent, dbPool, version, present, redisUp, client, store, inval, batch>>

\* _get_project_info and generate_cache_key (service.py 91-101).
Resolve(s) ==
    /\ slot[s].pc = "resolve"
    /\ slot[s].in_block
    /\ LET r == slot[s]
           request == r.request[1]
           called == [r EXCEPT !.calls.resolve = @ + 1]
           row == LookupProject(request.project_id)
       IN \/ /\ slot' = [slot EXCEPT ![s] = Release(Fail(called, "PostgresError", "storage", "storage", HTTPStatus("PostgresError")))]
          \/ /\ row = <<>>
             /\ slot' = [slot EXCEPT ![s] = Release(Fail(called, "ValueError", "Project not found", "not_found", HTTPStatus("ValueError")))]
          \/ /\ row # <<>>
             /\ slot' = [slot EXCEPT ![s] = Release([called EXCEPT
                        !.pc = "cache_get",
                        !.project_uuid = row[1].id,
                        !.corpus_version = version[row[1].id],
                        !.cache_key = generate_cache_key(request.project_id,
                                                         version[row[1].id],
                                                         request.query)])]
    /\ UNCHANGED <<probe, svc, busy, silent, dbPool, version, present, redisUp, client, store, nreq, inval, batch, hist>>

\* Mutant: a response read from the cache is not marked as a hit.
CachedResponse_NotFlagged(request, cached, corpus_version) ==
    [results |-> LoadResults(cached.results),
     query |-> request.query,
     project_id |-> request.project_id,
     total_found |-> cached.total_found,
     cache_hit |-> FALSE,
     corpus_version |-> corpus_version]

\* Mutant: total_found is recomputed from the cached results.
CachedResponse_CountsResults(request, cached, corpus_version) ==
    [results |-> LoadResults(cached.results),
     query |-> request.query,
     project_id |-> request.project_id,
     total_found |-> Len(cached.results),
     cache_hit |-> TRUE,
     corpus_version |-> corpus_version]

\* The cached response of service.py 105-115.
CachedResponse(request, cached, corpus_version) ==
    [results |-> LoadResults(cached.results),
     query |-> request.query,
     project_id |-> request.project_id,
     total_found |-> cached.total_found,
     cache_hit |-> TRUE,
     corpus_version |-> corpus_version]

\* Mutant: the query is embedded before the cache is read.
CacheGet_EmbedsFirst(s) ==
    /\ slot[s].pc = "cache_get"
    /\ CacheReturns
    /\ LET r == slot[s]
           request == r.request[1]
           cached == get(r.cache_key)
           fresh == r.project_uuid \in hist.bumped
                        /\ r.corpus_version = version[r.project_uuid]
           called == [r EXCEPT !.calls.get = @ + 1,
                               !.calls.embed = @ + 1,
                               !.g.get_failed = ~client \/ ~redisUp,
                               !.g.first = fresh]
       IN /\ IF cached.raised
             THEN slot' = [slot EXCEPT ![s] =
                     Fail(called, "ConnectionError", "cache", "cache", HTTPStatus("ConnectionError"))]
             ELSE IF cached.value # <<>>
             THEN slot' = [slot EXCEPT ![s] =
                     [called EXCEPT
                         !.pc = "done",
                         !.status = 200,
                         !.response = <<CachedResponse(request, cached.value[1], r.corpus_version)>>,
                         !.g.clean = TRUE,
                         !.g.entry = <<store[r.cache_key].ghost>>,
                         !.g.docs = store[r.cache_key].ghost.docs,
                         !.g.data_version = store[r.cache_key].ghost.data_version]]
             ELSE slot' = [slot EXCEPT ![s] = [called EXCEPT !.pc = "embed"]]
          /\ hist' = IF fresh THEN [hist EXCEPT !.bumped = @ \ {r.project_uuid}] ELSE hist
    /\ UNCHANGED <<probe, svc, busy, silent, dbPool, version, present, redisUp, client, store, nreq, inval, batch>>

\* The cache check (service.py 103-115).
CacheGet(s) ==
    /\ slot[s].pc = "cache_get"
    /\ CacheReturns
    /\ LET r == slot[s]
           request == r.request[1]
           cached == get(r.cache_key)
           fresh == r.project_uuid \in hist.bumped
                        /\ r.corpus_version = version[r.project_uuid]
           called == [r EXCEPT !.calls.get = @ + 1,
                               !.g.get_failed = ~client \/ ~redisUp,
                               !.g.first = fresh]
       IN /\ IF cached.raised
             THEN slot' = [slot EXCEPT ![s] =
                     Fail(called, "ConnectionError", "cache", "cache", HTTPStatus("ConnectionError"))]
             ELSE IF cached.value # <<>>
             THEN slot' = [slot EXCEPT ![s] =
                     [called EXCEPT
                         !.pc = "done",
                         !.status = 200,
                         !.response = <<CachedResponse(request, cached.value[1], r.corpus_version)>>,
                         !.g.clean = TRUE,
                         !.g.entry = <<store[r.cache_key].ghost>>,
                         !.g.docs = store[r.cache_key].ghost.docs,
                         !.g.data_version = store[r.cache_key].ghost.data_version]]
             ELSE slot' = [slot EXCEPT ![s] = [called EXCEPT !.pc = "embed"]]
          /\ hist' = IF fresh THEN [hist EXCEPT !.bumped = @ \ {r.project_uuid}] ELSE hist
    /\ UNCHANGED <<probe, svc, busy, silent, dbPool, version, present, redisUp, client, store, nreq, inval, batch>>

\* Mutant: a failed embedding call is tried a second time.
Embed_Retries(s) ==
    /\ slot[s].pc = "embed"
    /\ slot' = [slot EXCEPT ![s] =
                  IF @.calls.embed < 2
                  THEN [@ EXCEPT !.calls.embed = @ + 1]
                  ELSE Fail(@, "APIError", "provider", "provider", HTTPStatus("APIError"))]
    /\ UNCHANGED <<probe, svc, busy, silent, dbPool, version, present, redisUp, client, store, nreq, inval, batch, hist>>

\* Mutant: the hybrid search is started without the embedding having been
\* awaited.
Embed_NotAwaited(s) ==
    /\ slot[s].pc = "embed"
    /\ slot' = [slot EXCEPT ![s] = [@ EXCEPT !.pc = "search"]]
    /\ UNCHANGED <<probe, svc, busy, silent, dbPool, version, present, redisUp, client, store, nreq, inval, batch, hist>>

\* self._embeddings.embed(request.query) (service.py 117-118).
Embed(s) ==
    /\ slot[s].pc = "embed"
    /\ LET r == slot[s]
           called == [r EXCEPT !.calls.embed = @ + 1]
       IN \/ slot' = [slot EXCEPT ![s] =
                  Fail(called, "APIError", "provider", "provider", HTTPStatus("APIError"))]
          \/ \E len \in {DIMENSION - 1, DIMENSION, DIMENSION + 1} :
                LET e == embed(<<len>>)
                    got == [called EXCEPT !.g.provider_len = len]
                IN IF e.raised
                   THEN slot' = [slot EXCEPT ![s] =
                           Fail(got, e.cls, e.msg, "dimension", HTTPStatus(e.cls))]
                   ELSE slot' = [slot EXCEPT ![s] =
                           [got EXCEPT !.pc = "search", !.query_embedding = e.value]]
    /\ UNCHANGED <<probe, svc, busy, silent, dbPool, version, present, redisUp, client, store, nreq, inval, batch, hist>>

\* Mutant: the hybrid search is asked for top_k rows.
SearchArgs_LimitTopK(r) ==
    <<r.project_uuid, r.query_embedding, r.request[1].query,
      r.request[1].top_k, r.request[1].category>>

\* The arguments of `SELECT * FROM hybrid_search($1, $2, $3, $4, $5)`
\* (service.py 122-131).
SearchArgs(r) ==
    <<r.project_uuid, r.query_embedding, r.request[1].query,
      r.request[1].top_k * 2, r.request[1].category>>

\* Mutant: a storage failure of one request cancels every request in flight.
HybridSearch_CancelsAll(s) ==
    /\ slot[s].pc = "search"
    /\ slot[s].in_block
    /\ slot' = [ t \in DOMAIN slot |->
                   IF slot[t].pc \in {"idle", "done", "failed"} THEN slot[t]
                   ELSE [Fail(slot[t], "PostgresError", "storage", "storage",
                              HTTPStatus("PostgresError"))
                            EXCEPT !.conn = 0, !.in_block = FALSE] ]
    /\ UNCHANGED <<probe, svc, busy, silent, dbPool, version, present, redisUp, client, store, nreq, inval, batch, hist>>

\* Mutant: the reranker is called whenever the request enables it.
HybridSearch_RerankAlways(s) ==
    /\ slot[s].pc = "search"
    /\ slot[s].in_block
    /\ LET r == slot[s]
           request == r.request[1]
           called == [r EXCEPT !.calls.search = @ + 1]
           args == SearchArgs(r)
           rows == hybrid_search(present, args[1], args[3], args[4], args[5])
           documents == RowsToDocuments(rows)
           found == [called EXCEPT !.total_found = Len(rows), !.g.docs = present,
                                   !.g.search_args = args,
                                   !.g.data_version = version[r.project_uuid]]
       IN \/ slot' = [slot EXCEPT ![s] = Release(Fail(called, "PostgresError", "storage", "storage", HTTPStatus("PostgresError")))]
          \/ /\ request.use_reranker
             /\ \/ slot' = [slot EXCEPT ![s] = Release([found EXCEPT !.pc = "meta", !.calls.rerank = @ + 1,
                                    !.documents = rerank(request.query, documents, request.top_k)])]
                \/ slot' = [slot EXCEPT ![s] = Release(Fail([found EXCEPT !.calls.rerank = @ + 1],
                           "RuntimeError", "rerank", "rerank", HTTPStatus("RuntimeError")))]
          \/ /\ ~request.use_reranker
             /\ slot' = [slot EXCEPT ![s] = Release([found EXCEPT !.pc = "meta", !.documents = Take(documents, request.top_k)])]
    /\ UNCHANGED <<probe, svc, busy, silent, dbPool, version, present, redisUp, client, store, nreq, inval, batch, hist>>

\* hybrid_search, rows -> documents, rerank or truncate (service.py 120-152).
HybridSearch(s) ==
    /\ slot[s].pc = "search"
    /\ slot[s].in_block
    /\ LET r == slot[s]
           request == r.request[1]
           called == [r EXCEPT !.calls.search = @ + 1]
           args == SearchArgs(r)
           rows == hybrid_search(present, args[1], args[3], args[4], args[5])
           documents == RowsToDocuments(rows)
           found == [called EXCEPT !.total_found = Len(rows), !.g.docs = present,
                                   !.g.search_args = args,
                                   !.g.data_version = version[r.project_uuid]]
       IN \/ slot' = [slot EXCEPT ![s] = Release(Fail(called, "PostgresError", "storage", "storage", HTTPStatus("PostgresError")))]
          \/ /\ request.use_reranker /\ documents # <<>>
             /\ \/ slot' = [slot EXCEPT ![s] = Release([found EXCEPT !.pc = "meta", !.calls.rerank = @ + 1,
                                    !.documents = rerank(request.query, documents, request.top_k)])]
                \/ slot' = [slot EXCEPT ![s] = Release(Fail([found EXCEPT !.calls.rerank = @ + 1],
                           "RuntimeError", "rerank", "rerank", HTTPStatus("RuntimeError")))]
          \/ /\ ~(request.use_reranker /\ documents # <<>>)
             /\ slot' = [slot EXCEPT ![s] = Release([found EXCEPT !.pc = "meta", !.documents = Take(documents, request.top_k)])]
    /\ UNCHANGED <<probe, svc, busy, silent, dbPool, version, present, redisUp, client, store, nreq, inval, batch, hist>>

\* The metadata lookup and the ChunkResult list (service.py 154-185).
Meta(s) ==
    /\ slot[s].pc = "meta"
    /\ slot[s].in_block
    /\ LET r == slot[s]
           called == [r EXCEPT !.calls.meta = @ + 1]
           chunk_ids == { UUID(r.documents[i].id) : i \in DOMAIN r.documents }
           chunk_map == ChunkInfo(present, chunk_ids)
           results == [ i \in DOMAIN r.documents |-> BuildResult(r.documents[i], chunk_map) ]
       IN \/ slot' = [slot EXCEPT ![s] = Release(Fail(called, "PostgresError", "storage", "storage", HTTPStatus("PostgresError")))]
          \/ slot' = [slot EXCEPT ![s] = Release(IF \E i \in DOMAIN results : ~ValidChunkResult(results[i])
                  THEN Fail(called, "ValidationError", "score", "invalid_result",
                            HTTPStatus("ValidationError"))
                  ELSE [called EXCEPT !.pc = "cache_set", !.results = results,
                                      !.documents = <<>>])]
    /\ UNCHANGED <<probe, svc, busy, silent, dbPool, version, present, redisUp, client, store, nreq, inval, batch, hist>>

\* The cache write and the fresh response (service.py 187-204).
CacheSet(s) ==
    /\ slot[s].pc = "cache_set"
    /\ CacheReturns
    /\ LET r == slot[s]
           request == r.request[1]
           cache_data == [results |-> DumpResults(r.results),
                          total_found |-> r.total_found]
           w == set(r.cache_key, cache_data, <<>>,
                    [ver |-> r.corpus_version, tenant |-> r.project_uuid, docs |-> r.g.docs,
                     data_version |-> r.g.data_version])
           called == [r EXCEPT !.calls.set = @ + 1]
           others == Disturb(slot)
       IN /\ store' = w.store
          /\ IF w.raised
             THEN slot' = [slot EXCEPT ![s] =
                     Fail(called, "ConnectionError", "cache", "cache", HTTPStatus("ConnectionError"))]
             ELSE slot' = [(IF w.ok THEN others ELSE slot) EXCEPT ![s] =
                     [called EXCEPT
                         !.pc = "done",
                         !.status = 200,
                         !.query_embedding = <<>>,
                         !.results = <<>>,
                         !.g.clean = w.ok,
                         !.response = <<[results |-> r.results,
                                         query |-> request.query,
                                         project_id |-> request.project_id,
                                         total_found |-> r.total_found,
                                         cache_hit |-> FALSE,
                                         corpus_version |-> r.corpus_version]>>]]
    /\ UNCHANGED <<probe, svc, busy, silent, dbPool, version, present, redisUp, client, nreq, inval, batch, hist>>

\* The caller has read the response or the error; the slot is free again.
Reset(s) ==
    /\ slot[s].pc \in {"done", "failed"}
    /\ slot' = [slot EXCEPT ![s] = IdleSlot]
    /\ UNCHANGED <<probe, svc, busy, silent, dbPool, version, present, redisUp, client, store, nreq, inval, batch, hist>>

\* ------------------------------------------------------------ environment
\* The tenant's document set changed: corpus_version is incremented.
BumpVersion(p) ==
    /\ version[p] < MaxVersion
    /\ version' = [version EXCEPT ![p] = @ + 1]
    /\ hist' = [hist EXCEPT !.bumped = @ \cup {p}]
    /\ slot' = Disturb(slot)
    /\ UNCHANGED <<probe, svc, busy, silent, dbPool, present, redisUp, client, store, nreq, inval, batch>>

\* A document is ingested: its chunk row is inserted.
Ingest(c) ==
    /\ c \notin present
    /\ present' = present \cup {c}
    /\ UNCHANGED <<probe, svc, busy, silent, dbPool, version, redisUp, client, store, slot, nreq, inval, batch, hist>>

\* A direct call generate_cache_key(project_id, corpus_version, query).
CallGenerateCacheKey(project_id, corpus_version, query) ==
    /\ probe' = <<[fn |-> "generate_cache_key",
                   args |-> <<project_id, corpus_version, query>>,
                   out |-> generate_cache_key(project_id, corpus_version, query)]>>
                 \o Take(probe, 1)
    /\ UNCHANGED <<svc, busy, silent, dbPool, version, present, redisUp, client, store, slot, nreq, inval, batch, hist>>

\* A direct call _get_project_info(project_id) with the projects table
\* holding `projects`; the last two calls are kept.
CallGetProjectInfo(projects, project_id) ==
    /\ probe' = <<[fn |-> "_get_project_info",
                   args |-> <<projects, project_id>>,
                   out |-> get_project_info(projects, project_id)]>>
                 \o Take(probe, 1)
    /\ UNCHANGED <<svc, busy, silent, dbPool, version, present, redisUp, client, store, slot, nreq, inval, batch, hist>>

\* A direct call of a CacheClient method; `before` and `after` are the
\* store around it, `connected` and `reachable` the client and the server
\* when it was made.
CacheCall(fn, args, out, after) ==
    /\ probe' = <<[fn |-> fn, args |-> args, out |-> out,
                   before |-> store, after |-> after,
                   connected |-> client, reachable |-> redisUp]>>
    /\ store' = after
    /\ UNCHANGED <<svc, busy, silent, dbPool, version, present, redisUp, client, slot, nreq, inval, batch, hist>>

CallGet(key) ==
    CacheCall("get", <<key>>, get(key), store)

CallSet(key, value, ttl) ==
    LET w == set(key, value, ttl, <<>>)
    IN CacheCall("set", <<key, value, ttl>>, [raised |-> w.raised, value |-> w.ok], w.store)

CallDelete(key) ==
    LET d == delete(key)
    IN CacheCall("delete", <<key>>, [raised |-> d.raised, value |-> d.ok], d.store)

CallPing ==
    CacheCall("ping", <<>>, ping, store)

\* A direct call of set or get at a known time: `since` is the time that
\* has passed since the call; the last two calls are kept.
TimedCall(fn, args, out, after) ==
    /\ probe' = <<[fn |-> fn, args |-> args, out |-> out, since |-> 0]>> \o Take(probe, 1)
    /\ store' = after
    /\ UNCHANGED <<svc, busy, silent, dbPool, version, present, redisUp, client, slot, nreq, inval, batch, hist>>

SetAt(key, value, ttl) ==
    LET w == set(key, value, ttl, <<>>)
    IN TimedCall("set", <<key, value, ttl>>, [raised |-> w.raised, value |-> w.ok], w.store)

GetAt(key) ==
    TimedCall("get", <<key>>, get(key), store)

\* Moments of an entry's life at which the store is looked at: its last
\* second and the second after its first.
Lifetimes == {1, DEFAULT_TTL - 1}
ElapseSteps == {1, DEFAULT_TTL - 2, DEFAULT_TTL - 1, DEFAULT_TTL}

\* d seconds pass: Redis counts every entry's time-to-live down and drops
\* the entries whose time is up.
Elapse(d) ==
    /\ DOMAIN store # {}
    /\ \A k \in DOMAIN store : store[k].ex <= d \/ store[k].ex - d \in Lifetimes
    /\ store' = [k \in { x \in DOMAIN store : store[x].ex > d } |->
                    [store[k] EXCEPT !.ex = @ - d]]
    /\ probe' = [i \in DOMAIN probe |-> [probe[i] EXCEPT !.since = @ + d]]
    /\ UNCHANGED <<svc, busy, silent, dbPool, version, present, redisUp, client, slot, nreq, inval, batch, hist>>

\* A call of a lifecycle method or of a method that needs the connection;
\* `was` is the client's state before it, `created` and `closed` say whether
\* a pool or connection was made or shut.  The last two calls are kept.
LifecycleCall(fn, was, out, created, closed) ==
    probe' = <<[fn |-> fn, was |-> was, out |-> out, created |-> created, closed |-> closed]>>
             \o Take(probe, 1)

\* Mutant: connect makes a new pool whatever the client holds.
DbConnect_Recreates(reachable) ==
    /\ IF reachable
       THEN /\ dbPool' = TRUE
            /\ LifecycleCall("db.connect", dbPool, "ok", TRUE, FALSE)
       ELSE /\ dbPool' = dbPool
            /\ LifecycleCall("db.connect", dbPool, "OSError", FALSE, FALSE)
    /\ UNCHANGED <<svc, busy, silent, version, present, redisUp, client, store, slot, nreq, inval, batch, hist>>

\* DatabaseClient.connect, the database reachable or not.
DbConnect(reachable) ==
    /\ IF dbPool
       THEN /\ dbPool' = dbPool
            /\ LifecycleCall("db.connect", dbPool, "ok", FALSE, FALSE)
       ELSE IF reachable
       THEN /\ dbPool' = TRUE
            /\ LifecycleCall("db.connect", dbPool, "ok", TRUE, FALSE)
       ELSE /\ dbPool' = FALSE
            /\ LifecycleCall("db.connect", dbPool, "OSError", FALSE, FALSE)
    /\ UNCHANGED <<svc, busy, silent, version, present, redisUp, client, store, slot, nreq, inval, batch, hist>>

\* DatabaseClient.disconnect.
DbDisconnect ==
    /\ dbPool' = FALSE
    /\ LifecycleCall("db.disconnect", dbPool, "ok", FALSE, dbPool)
    /\ UNCHANGED <<svc, busy, silent, version, present, redisUp, client, store, slot, nreq, inval, batch, hist>>

\* DatabaseClient.execute / fetch / fetchrow / fetchval, the query
\* succeeding or not.
DbQuery(succeeds) ==
    /\ LifecycleCall("db.query", dbPool,
                     IF ~dbPool THEN "RuntimeError"
                     ELSE IF succeeds THEN "ok" ELSE "PostgresError",
                     FALSE, FALSE)
    /\ UNCHANGED <<svc, busy, silent, dbPool, version, present, redisUp, client, store, slot, nreq, inval, batch, hist>>

\* DatabaseClient.health_check.
DbHealthCheck(succeeds) ==
    /\ LifecycleCall("db.health_check", dbPool, dbPool /\ succeeds, FALSE, FALSE)
    /\ UNCHANGED <<svc, busy, silent, dbPool, version, present, redisUp, client, store, slot, nreq, inval, batch, hist>>

\* CacheClient.connect and disconnect, logged.
CacheConnect ==
    /\ client' = TRUE
    /\ LifecycleCall("cache.connect", client, "ok", ~client, FALSE)
    /\ UNCHANGED <<svc, busy, silent, dbPool, version, present, redisUp, store, slot, nreq, inval, batch, hist>>

CacheDisconnect ==
    /\ client' = FALSE
    /\ LifecycleCall("cache.disconnect", client, "ok", FALSE, client)
    /\ UNCHANGED <<svc, busy, silent, dbPool, version, present, redisUp, store, slot, nreq, inval, batch, hist>>

\* CacheClient.ping, logged.
CachePing ==
    /\ LifecycleCall("cache.ping", client, ping.value, FALSE, FALSE)
    /\ UNCHANGED <<svc, busy, silent, dbPool, version, present, redisUp, client, store, slot, nreq, inval, batch, hist>>

\* Another program writes a value that is not JSON under a key.
ForeignWrite(key) ==
    /\ redisUp
    /\ store' = (key :> [value |-> <<"raw", "x">>, ex |-> 0, ghost |-> <<>>]) @@ store
    /\ UNCHANGED <<probe, svc, busy, silent, dbPool, version, present, redisUp, client, slot, nreq, inval, batch, hist>>

\* A direct call Reranker.rerank(query, documents, top_k).
CallRerank(query, documents, top_k) ==
    /\ probe' = <<[fn |-> "rerank",
                   args |-> <<query, documents, top_k>>,
                   out |-> rerank(query, documents, top_k),
                   ranker_calls |-> RankerCalls(documents)]>>
    /\ svc' = ensure_loaded(svc, documents)
    /\ UNCHANGED <<busy, silent, dbPool, version, present, redisUp, client, store, slot, nreq, inval, batch, hist>>

\* The Redis server becomes unreachable / reachable again.
RedisDown ==
    /\ redisUp
    /\ redisUp' = FALSE
    /\ slot' = Disturb(slot)
    /\ UNCHANGED <<probe, svc, busy, silent, dbPool, version, present, client, store, nreq, inval, batch, hist>>

RedisUp ==
    /\ ~redisUp
    /\ redisUp' = TRUE
    /\ slot' = Disturb(slot)
    /\ UNCHANGED <<probe, svc, busy, silent, dbPool, version, present, client, store, nreq, inval, batch, hist>>

\* An entry reaches its time-to-live and Redis drops it.
Expire(key) ==
    /\ key \in DOMAIN store
    /\ store' = Remove(store, key)
    /\ slot' = Disturb(slot)
    /\ UNCHANGED <<probe, svc, busy, silent, dbPool, version, present, redisUp, client, nreq, inval, batch, hist>>

\* CacheClient.connect / disconnect.
connect ==
    /\ client' = TRUE
    /\ slot' = IF client THEN slot ELSE Disturb(slot)
    /\ UNCHANGED <<probe, svc, busy, silent, dbPool, version, present, redisUp, store, nreq, inval, batch, hist>>

disconnect ==
    /\ client' = FALSE
    /\ slot' = IF client THEN Disturb(slot) ELSE slot
    /\ UNCHANGED <<probe, svc, busy, silent, dbPool, version, present, redisUp, store, nreq, inval, batch, hist>>

\* CacheClient.delete(key) with "*" in key, called with the project's
\* pattern: scan_iter enumerates the matching keys, each is deleted in turn.
DeleteBegin(project_id) ==
    /\ inval.pc = "idle"
    /\ client
    /\ redisUp
    /\ inval' = [pc |-> "scan",
                 pattern |-> ProjectPattern(project_id),
                 todo |-> { k \in DOMAIN store : KeyMatches(ProjectPattern(project_id), k) },
                 floor |-> present]
    /\ UNCHANGED <<probe, svc, busy, silent, dbPool, version, present, redisUp, client, store, slot, nreq, batch, hist>>

DeleteStep(key) ==
    /\ inval.pc = "scan"
    /\ key \in inval.todo
    /\ IF redisUp
       THEN /\ store' = Remove(store, key)
            /\ inval' = [inval EXCEPT !.todo = @ \ {key}]
            /\ slot' = Disturb(slot)
       ELSE /\ store' = store
            /\ inval' = NoInval
            /\ slot' = slot
    /\ UNCHANGED <<probe, svc, busy, silent, dbPool, version, present, redisUp, client, nreq, batch, hist>>

DeleteEnd ==
    /\ inval.pc = "scan"
    /\ inval.todo = {}
    /\ inval' = NoInval
    /\ hist' = IF inval.floor # InitialChunks
               THEN [hist EXCEPT !.invalidated = <<inval.pattern[2]>>,
                                 !.floor = inval.floor]
               ELSE hist
    /\ UNCHANGED <<probe, svc, busy, silent, dbPool, version, present, redisUp, client, store, slot, nreq, batch>>

\* EmbeddingClient.embed_batch(texts) with the provider's answer.
EmbedBatch(n, response) ==
    /\ Len(response) = n
    /\ LET e == embed_batch([i \in 1..n |-> "t"], response)
       IN batch' = [texts |-> n, response |-> response,
                    out |-> IF e.raised THEN e.cls ELSE "ok", value |-> e.value]
    /\ UNCHANGED <<probe, svc, busy, silent, dbPool, version, present, redisUp, client, store, slot, nreq, inval, hist>>

BatchResponses ==
    UNION { [1..n -> {DIMENSION - 1, DIMENSION}] : n \in 0..MaxBatch }

\* The request pipeline of the slots in S, the callers sending the
\* requests in R.
Pipeline(S, R) ==
    \/ \E s \in S, request \in R : Submit(s, request)
    \/ \E s \in S : Acquire(s)
    \/ \E s \in S : Resolve(s)
    \/ \E s \in S : CacheGet(s)
    \/ \E s \in S : Embed(s)
    \/ \E s \in S : HybridSearch(s)
    \/ \E s \in S : Meta(s)
    \/ \E s \in S : CacheSet(s)
    \/ \E s \in S : Reset(s)

\* The steps of one request once it is submitted.
Step(s) ==
    \/ Resolve(s) \/ CacheGet(s) \/ Embed(s) \/ HybridSearch(s) \/ Meta(s) \/ CacheSet(s)

\* The service under concurrent requests, ingestion and version changes,
\* the cache store reachable.
Next ==
    \/ Pipeline(Slots, ConcurrentRequests)
    \/ \E p \in ProjectUUIDs : BumpVersion(p)
    \/ \E c \in ChunkIds : Ingest(c)

Spec == Init /\ [][Next]_vars

\* The service under concurrent requests, ingestion and bulk invalidation
\* of a project's cache entries.
NextInvalidate ==
    \/ Pipeline(Slots, InvalidatedRequests)
    \/ \E c \in ChunkIds : Ingest(c)
    \/ \E project_id \in InvalidatedIdents : DeleteBegin(project_id)
    \/ \E key \in DOMAIN store : DeleteStep(key)
    \/ DeleteEnd

SpecInvalidate == Init /\ [][NextInvalidate]_vars

\* One caller at a time sending any request, well-formed or not, under
\* cache outages and expiry and the CacheClient lifecycle; the corpus is
\* left alone.
NextClients ==
    \/ Pipeline({1}, SearchRequests)
    \/ RedisDown
    \/ RedisUp
    \/ \E key \in DOMAIN store : Expire(key)
    \/ connect
    \/ disconnect

SpecClients == Init /\ [][NextClients]_vars

\* The embedding client: one caller of search at a time, and batch
\* embedding.
NextEmbedding ==
    \/ Pipeline({1}, EmbeddingRequests)
    \/ \E response \in BatchResponses : EmbedBatch(Len(response), response)

SpecEmbedding == Init /\ [][NextEmbedding]_vars

\* Concurrent callers of a tenant whose filtered search has no candidate,
\* under cache outages and expiry of cache entries.
NextEmpty ==
    \/ Pipeline(Slots, EmptyResultRequests)
    \/ RedisDown
    \/ RedisUp
    \/ \E key \in DOMAIN store : Expire(key)

SpecEmpty == Init /\ [][NextEmpty]_vars

\* Direct calls of generate_cache_key, the last two kept.
NextKeys ==
    \E project_id \in ValidIdents, corpus_version \in 1..MaxVersion, query \in KeyQueries :
        CallGenerateCacheKey(project_id, corpus_version, query)

SpecKeys == Init /\ [][NextKeys]_vars

\* The application from before its startup, the reranker model loadable or
\* not.
NextStartup ==
    \/ Construct
    \/ Pipeline(Slots, StartupRequests)

SpecStartup == InitStartup /\ [][NextStartup]_vars

\* Direct calls of Reranker.rerank.
NextRerank ==
    \E query \in ValidQueries, documents \in SeqsUpTo(Candidates, MaxDocs), top_k \in 0..MaxTopK :
        CallRerank(query, documents, top_k)

SpecRerank == Init /\ [][NextRerank]_vars

\* Requests that share the storage pool with the rest of the process.
PoolRequests == { Req("q1", "alpha", 1, None, TRUE), Req("q1", "missing", 1, None, FALSE) }

NextPool ==
    \/ Pipeline(Slots, PoolRequests)
    \/ AcquireOther
    \/ ReleaseOther

\* Every external call returns, every connection taken by another coroutine
\* is given back, and the pool serves its waiters in the order they came, so
\* a waiter that could be served again and again is served.
PoolFairness ==
    /\ \A s \in Slots : SF_vars(Acquire(s)) /\ WF_vars(Step(s))
    /\ WF_vars(ReleaseOther)

SpecPool == Init /\ [][NextPool]_vars /\ PoolFairness

\* Requests against a cache store that may stop replying.
SilentRequests == { Req("q1", "alpha", 1, None, FALSE), Req("q2", "alpha", 1, None, FALSE) }

NextSilent ==
    \/ Pipeline(Slots, SilentRequests)
    \/ RedisHang

\* Every call that is answered returns.
SilentFairness == \A s \in Slots : WF_vars(Acquire(s)) /\ WF_vars(Step(s))

SpecSilent == Init /\ [][NextSilent]_vars /\ SilentFairness

\* Rows a projects table can hold; the slug of the third is the text of the
\* first one's id.
ProjectRows ==
    Projects \cup { [id |-> "U3", slug |-> "U1"] }

\* Identifiers given to _get_project_info.
LookupIdents == {"alpha", "beta", "U1", "U2", "U3", "missing"}

\* Direct calls of _get_project_info, over every projects table.
NextLookup ==
    \E projects \in SUBSET ProjectRows, project_id \in LookupIdents :
        CallGetProjectInfo(projects, project_id)

SpecLookup == Init /\ [][NextLookup]_vars

\* Keys and patterns given to the CacheClient directly, and values to store.
CacheKeys ==
    { generate_cache_key("alpha", 1, "q1"), generate_cache_key("alpha", 2, "q1"),
      generate_cache_key("beta", 1, "q1") }
CachePatterns == { ProjectPattern("alpha"), ProjectPattern("missing") }
CacheValues == { [query |-> "test", results |-> <<1, 2, 3>>] }
CacheTTLs == { <<>>, <<0>>, <<1>> }

\* Direct calls of the CacheClient under outages and its lifecycle.
NextCache ==
    \/ \E key \in CacheKeys : CallGet(key)
    \/ \E key \in CacheKeys, value \in CacheValues : CallSet(key, value, <<>>)
    \/ \E key \in CacheKeys \cup CachePatterns : CallDelete(key)
    \/ CallPing
    \/ \E key \in CacheKeys : ForeignWrite(key)
    \/ RedisDown
    \/ RedisUp
    \/ connect
    \/ disconnect

SpecCache == Init /\ [][NextCache]_vars

\* Direct calls of set and get while time passes.
TTLKeys == { generate_cache_key("alpha", 1, "q1"), generate_cache_key("beta", 1, "q1") }

NextTTL ==
    \/ \E key \in TTLKeys, value \in CacheValues, ttl \in CacheTTLs : SetAt(key, value, ttl)
    \/ \E key \in TTLKeys : GetAt(key)
    \/ \E d \in ElapseSteps : Elapse(d)

SpecTTL == Init /\ [][NextTTL]_vars

\* The two clients driven through their lifecycle.
NextLifecycle ==
    \/ \E reachable \in BOOLEAN : DbConnect(reachable)
    \/ DbDisconnect
    \/ \E succeeds \in BOOLEAN : DbQuery(succeeds)
    \/ \E succeeds \in BOOLEAN : DbHealthCheck(succeeds)
    \/ CacheConnect
    \/ CacheDisconnect
    \/ CachePing

SpecLifecycle == Init /\ [][NextLifecycle]_vars

\* ============================================================== properties
Done(s) == slot[s].pc = "done"
Failed(s) == slot[s].pc = "failed"
Started(s) == slot[s].pc # "idle"
RequestOf(s) == slot[s].request[1]
ResponseOf(s) == slot[s].response[1]

\* C1 as claimed: with the cache reachable and neither the cache nor the
\* tenant's corpus version changed between the two calls, a search repeated
\* after an identical search has completed is served from the cache with the
\* same results and the same total_found; the first search on an empty
\* cache is a miss.
C1_RepeatedSearchHitsCache_Claimed ==
    /\ \A s \in Slots :
          (Done(s) /\ slot[s].g.pred # <<>> /\ slot[s].g.quiet) =>
              /\ ResponseOf(s).cache_hit
              /\ ResponseOf(s).results = slot[s].g.pred[1].results
              /\ ResponseOf(s).total_found = slot[s].g.pred[1].total_found
    /\ nreq = 1 => \A s \in Slots : Done(s) => ~ResponseOf(s).cache_hit

\* C1 (amended): the same, when in addition the corpus version did not change
\* while the first call was in flight, so that both calls resolve the same
\* corpus version.
C1_RepeatedSearchHitsCache ==
    /\ \A s \in Slots :
          (/\ Done(s) /\ slot[s].g.pred # <<>> /\ slot[s].g.quiet
           /\ slot[s].g.pred[1].corpus_version = ResponseOf(s).corpus_version) =>
              /\ ResponseOf(s).cache_hit
              /\ ResponseOf(s).results = slot[s].g.pred[1].results
              /\ ResponseOf(s).total_found = slot[s].g.pred[1].total_found
    /\ nreq = 1 => \A s \in Slots : Done(s) => ~ResponseOf(s).cache_hit

C1_Witness ==
    \E s \in Slots :
        /\ Done(s) /\ slot[s].g.pred # <<>> /\ slot[s].g.quiet
        /\ ~slot[s].g.pred[1].cache_hit
        /\ ResponseOf(s).cache_hit
        /\ ResponseOf(s).results # <<>>
        /\ ResponseOf(s).total_found > Len(ResponseOf(s).results)

\* C2: the first search that checks the cache under a tenant's new
\* corpus_version after a change is a cache miss, and a cache hit is only ever served from an entry
\* written by a request that resolved the same corpus version of the tenant.
C2_VersionChangeMisses ==
    \A s \in Slots :
        /\ (Done(s) /\ slot[s].g.first) => ~ResponseOf(s).cache_hit
        /\ (Done(s) /\ ResponseOf(s).cache_hit) =>
              (slot[s].g.entry[1].tenant = slot[s].project_uuid
                  => slot[s].g.entry[1].ver = slot[s].corpus_version)

\* After the change the entry written under the old version is still stored.
C2_Witness ==
    \E s \in Slots :
        /\ Done(s) /\ slot[s].g.first
        /\ ~ResponseOf(s).cache_hit
        /\ <<"fraim", RequestOf(s).project_id, slot[s].corpus_version - 1,
             "search", SubSeq(Sha256Hex(RequestOf(s).query), 1, 16)>> \in DOMAIN store

\* C3: every chunk of a response belongs to the tenant the request's
\* project_id resolved to, for fresh and for cached responses.
C3_TenantIsolation ==
    \A s \in Slots :
        Done(s) =>
            \A i \in DOMAIN ResponseOf(s).results :
                LET c == ResponseOf(s).results[i]
                IN /\ Chunks[c.id[2]].project_id = slot[s].project_uuid
                   /\ Documents[c.document_id[2]].project_id = slot[s].project_uuid

\* Two tenants have been searched, one of them by its UUID or from the cache.
C3_Witness ==
    \E s, o \in Slots :
        /\ Done(s) /\ Done(o)
        /\ slot[s].project_uuid = "U1" /\ slot[o].project_uuid = "U2"
        /\ ResponseOf(s).results # <<>> /\ ResponseOf(o).results # <<>>

\* C4: the first search of a project_id after a bulk invalidation that
\* followed an ingestion has completed is a cache miss computed from documents no older than those present when
\* the invalidation began.
C4_NoStaleAfterInvalidation ==
    \A s \in Slots :
        (Done(s) /\ slot[s].g.next) =>
            /\ ~ResponseOf(s).cache_hit
            /\ slot[s].g.floor \subseteq slot[s].g.docs

\* C5: every result of a response to a request with a category filter has
\* that category.
C5_CategoryFilterRespected ==
    \A s \in Slots :
        (Done(s) /\ RequestOf(s).category # None) =>
            \A i \in DOMAIN ResponseOf(s).results :
                ResponseOf(s).results[i].category = RequestOf(s).category

KnownIdent(project_id) ==
    \E p \in Projects : p.slug = project_id \/ p.id = project_id

WellFormed(request) ==
    /\ StrLen(request.query) \in 1..1000
    /\ StrLen(request.project_id) \in 1..100
    /\ request.top_k \in 1..50

\* C7: a search whose project_id is no project's slug and no project's id
\* never succeeds; once the lookup has been answered it has failed with
\* ValueError 'Project not found' and status 404, and it never reads or
\* writes the cache, embeds or searches.
C7_UnknownProjectNotFound ==
    \A s \in Slots :
        (Started(s) /\ WellFormed(RequestOf(s)) /\ ~KnownIdent(RequestOf(s).project_id)) =>
            /\ slot[s].pc \in {"resolve", "failed"}
            /\ slot[s].calls.get = 0 /\ slot[s].calls.set = 0
            /\ slot[s].calls.embed = 0 /\ slot[s].calls.search = 0
            /\ Failed(s) =>
                  \/ slot[s].exc.kind = "storage"
                  \/ /\ slot[s].exc.cls = "ValueError"
                     /\ slot[s].exc.msg = "Project not found"
                     /\ slot[s].status = 404

C7_Witness ==
    \E s \in Slots :
        /\ Failed(s) /\ ~KnownIdent(RequestOf(s).project_id)
        /\ slot[s].exc.msg = "Project not found" /\ slot[s].status = 404
        /\ store # <<>>

\* C8: only an unknown tenant is answered 404; a dimension mismatch, a
\* provider, storage or reranker failure and an invalid result value are
\* answered 500.
C8_OnlyNotFoundIs404 ==
    \A s \in Slots :
        Failed(s) =>
            /\ slot[s].status = 404 => slot[s].exc.kind = "not_found"
            /\ slot[s].exc.kind \in {"dimension", "provider", "storage", "rerank", "invalid_result"}
                  => slot[s].status = 500

\* C9: embed and embed_batch return only vectors of DIMENSION elements, the
\* provider's vectors unchanged; a vector of another length raises
\* ValueError, and the search that asked for it fails without a hybrid
\* search and without a cache write.
C9_DimensionContract ==
    /\ \A s \in Slots :
          /\ slot[s].query_embedding \in {<<>>, <<DIMENSION>>}
          /\ slot[s].g.provider_len \notin {0, DIMENSION} =>
                /\ Failed(s)
                /\ slot[s].exc.cls = "ValueError" /\ slot[s].exc.kind = "dimension"
                /\ slot[s].calls.search = 0 /\ slot[s].calls.meta = 0
                /\ slot[s].calls.set = 0
          /\ slot[s].pc \in {"search", "meta", "cache_set"} => slot[s].g.provider_len = DIMENSION
    /\ batch.out = "ok" =>
          /\ batch.value = batch.response
          /\ \A i \in DOMAIN batch.value : batch.value[i] = DIMENSION
    /\ (\E i \in DOMAIN batch.response : batch.response[i] # DIMENSION) =>
          batch.out = "ValueError" /\ batch.value = <<>>

C9_Witness ==
    /\ \E s \in Slots :
          /\ Failed(s) /\ slot[s].g.provider_len = DIMENSION - 1
          /\ slot[s].exc.kind = "dimension"
    /\ batch.out = "ValueError" /\ batch.texts = 2
    /\ batch.response[1] = DIMENSION

\* C10: a request with an empty or over-long query, a top_k outside 1..50 or
\* a project_id outside 1..100 characters fails validation before anything
\* is called: no tenant resolution, cache, embedding or storage call.
C10_MalformedRejectedFirst ==
    \A s \in Slots :
        (Started(s) /\ ~WellFormed(RequestOf(s))) =>
            /\ Failed(s)
            /\ slot[s].exc.kind = "validation"
            /\ slot[s].calls = ZeroCalls

C10_Witness ==
    \E s \in Slots :
        /\ Failed(s) /\ RequestOf(s).top_k = 51 /\ RequestOf(s).query = "q1"
        /\ slot[s].exc.kind = "validation" /\ slot[s].status = 422
        /\ slot[s].calls = ZeroCalls

\* C11: a request answered from the cache has resolved its tenant once and
\* read the cache once, and has called neither the embedding provider, the
\* hybrid search, the reranker, the metadata lookup nor the cache write.
C11_HitSkipsPipeline ==
    \A s \in Slots :
        (Done(s) /\ ResponseOf(s).cache_hit) =>
            /\ slot[s].calls = [ZeroCalls EXCEPT !.resolve = 1, !.get = 1]
            /\ slot[s].cache_key = generate_cache_key(RequestOf(s).project_id,
                                                      slot[s].corpus_version,
                                                      RequestOf(s).query)

C11_Witness ==
    \E s \in Slots :
        /\ Done(s) /\ ResponseOf(s).cache_hit
        /\ RequestOf(s).use_reranker
        /\ ResponseOf(s).results # <<>>
        /\ slot[s].calls.get = 1 /\ slot[s].calls.embed = 0

\* The hybrid search of request s has returned, with no candidate.
NoCandidates(s) ==
    /\ slot[s].calls.search = 1
    /\ slot[s].total_found = 0
    /\ \/ slot[s].pc \in {"meta", "cache_set", "done"}
       \/ Failed(s) /\ slot[s].calls.meta = 1

\* C12: a search whose hybrid search returns no candidate does not call the
\* reranker, fails only if the storage fails, answers results = [],
\* total_found = 0, cache_hit = false, and has written that empty result to
\* the cache; an identical search made next, nothing changing in between, is
\* a cache hit with results = [] and total_found = 0.
C12_EmptyResultCached ==
    \A s \in Slots :
        /\ NoCandidates(s) =>
              /\ slot[s].calls.rerank = 0
              /\ slot[s].documents = <<>>
              /\ Failed(s) => slot[s].exc.kind = "storage"
              /\ Done(s) =>
                    /\ slot[s].status = 200
                    /\ ResponseOf(s).results = <<>>
                    /\ ResponseOf(s).total_found = 0
                    /\ ~ResponseOf(s).cache_hit
                    /\ slot[s].calls.set = 1
                    /\ slot[s].g.clean =>
                          /\ slot[s].cache_key \in DOMAIN store
                          /\ JsonLoads(store[slot[s].cache_key].value)
                                = [results |-> <<>>, total_found |-> 0]
        /\ (/\ Done(s) /\ slot[s].g.pred # <<>> /\ slot[s].g.quiet
            /\ ~slot[s].g.pred[1].cache_hit
            /\ slot[s].g.pred[1].total_found = 0) =>
              /\ ResponseOf(s).cache_hit
              /\ ResponseOf(s).results = <<>>
              /\ ResponseOf(s).total_found = 0

C12_Witness ==
    \E s, o \in Slots :
        /\ Done(o) /\ NoCandidates(o) /\ RequestOf(o).use_reranker
        /\ Done(s) /\ slot[s].g.pred = slot[o].response /\ slot[s].g.quiet
        /\ ResponseOf(s).cache_hit /\ ResponseOf(s).results = <<>>
        /\ ResponseOf(s).total_found = 0

Digest16(query) == SubSeq(Sha256Hex(query), 1, 16)

\* C14 as claimed: with project_id fixed, two calls that differ in
\* corpus_version or in query return different keys.
C14_KeysDiffer_Claimed ==
    \A i, j \in DOMAIN probe :
        (/\ probe[i].args[1] = probe[j].args[1]
         /\ \/ probe[i].args[2] # probe[j].args[2]
            \/ probe[i].args[3] # probe[j].args[3]) =>
            probe[i].out # probe[j].out

\* C14 (amended): with project_id fixed, two calls return different keys
\* exactly when they differ in corpus_version or in the first 16 hexadecimal
\* digits of the SHA-256 digest of the query.
C14_KeysDiffer ==
    \A i, j \in DOMAIN probe :
        probe[i].args[1] = probe[j].args[1] =>
            (probe[i].out # probe[j].out
                <=> \/ probe[i].args[2] # probe[j].args[2]
                    \/ Digest16(probe[i].args[3]) # Digest16(probe[j].args[3]))

C14_Witness ==
    /\ Len(probe) = 2
    /\ probe[1].args[1] = probe[2].args[1]
    /\ probe[1].args[2] = probe[2].args[2]
    /\ probe[1].args[3] = "q1x" /\ probe[2].args[3] = "q1"
    /\ probe[1].out = probe[2].out

\* C15: any two cache entries written by searches for the same tenant at the
\* same corpus version have the same key up to the query hash, so that one
\* pattern on that prefix matches them all.
C15_TenantEntriesSharePrefix ==
    \A k1, k2 \in DOMAIN store :
        (/\ store[k1].ghost.tenant = store[k2].ghost.tenant
         /\ store[k1].ghost.ver = store[k2].ghost.ver) =>
            /\ SubSeq(k1, 1, 4) = SubSeq(k2, 1, 4)
            /\ \A project_id \in ValidIdents :
                  KeyMatches(ProjectPattern(project_id), k1)
                      <=> KeyMatches(ProjectPattern(project_id), k2)

\* C16: when the reranker model cannot be loaded the SearchService is
\* still constructed, and a request with use_reranker = false is never
\* refused for want of a service.
C16_RerankerLoadedLazily ==
    /\ svc.state # "failed"
    /\ \A s \in Slots :
          (Failed(s) /\ svc.state # "none" /\ ~RequestOf(s).use_reranker) =>
              slot[s].exc.kind # "not_initialized"

\* The output record o is the input candidate d with rerank_score added or
\* overwritten and nothing else changed.
Preserves(o, d) ==
    /\ DOMAIN o = DOMAIN d \cup {"rerank_score"}
    /\ \A f \in DOMAIN d \ {"rerank_score"} : o[f] = d[f]

RerankProbes == { i \in DOMAIN probe : probe[i].fn = "rerank" }

\* C17: every record Reranker.rerank returns is one of the input candidates
\* with all its fields and their values, and rerank_score as the only field
\* added or overwritten.
C17_RerankPreservesFields ==
    \A i \in RerankProbes :
        \A k \in DOMAIN probe[i].out :
            \E j \in DOMAIN probe[i].args[2] :
                Preserves(probe[i].out[k], probe[i].args[2][j])

C17_Witness ==
    \E i \in RerankProbes :
        /\ Len(probe[i].out) = 2
        /\ \E k \in DOMAIN probe[i].out :
              /\ "custom_field" \in DOMAIN probe[i].out[k]
              /\ probe[i].out[k].custom_field = "preserved"
        /\ \E k \in DOMAIN probe[i].out :
              /\ "id" \notin DOMAIN probe[i].out[k]
              /\ "rerank_score" \in DOMAIN probe[i].out[k]

\* The candidates of a call have pairwise distinct ids, the default id of a
\* candidate without one counted.
DistinctIds(documents) ==
    \A a, b \in DOMAIN documents :
        a # b => PassageId(documents, a) # PassageId(documents, b)

C19_RerankEmptyInput ==
    \A i \in RerankProbes :
        probe[i].args[2] = <<>> =>
            /\ probe[i].out = <<>>
            /\ probe[i].ranker_calls = 0

C19_Witness ==
    \E i \in RerankProbes :
        /\ probe[i].args[2] = <<>> /\ probe[i].args[3] = 3 /\ probe[i].args[1] = "q2"
        /\ probe[i].out = <<>> /\ probe[i].ranker_calls = 0

\* The steps other than reranking that a request on the miss path has
\* completed when it is at pc, in their order.
StepsBefore(pc) ==
    CASE pc = "resolve"   -> {}
      [] pc = "cache_get" -> {"resolve"}
      [] pc = "embed"     -> {"resolve", "get"}
      [] pc = "search"    -> {"resolve", "get", "embed"}
      [] pc = "meta"      -> {"resolve", "get", "embed", "search"}
      [] pc = "cache_set" -> {"resolve", "get", "embed", "search", "meta"}
      [] pc = "done"      -> {"resolve", "get", "embed", "search", "meta", "set"}

\* C20: a request on the miss path has, at each step, completed exactly the
\* steps before it, once each, in the order tenant resolution, cache read,
\* embedding, hybrid search, rerank or truncate, metadata lookup, cache
\* write, response; the hybrid search starts only with the embedding result;
\* and a failed request has completed a prefix of that order.
C20_StepsInOrder ==
    \A s \in Slots :
        LET c == slot[s].calls
            reranks == RequestOf(s).use_reranker /\ slot[s].total_found > 0
        IN /\ (Started(s) /\ ~Failed(s) /\ ~(Done(s) /\ ResponseOf(s).cache_hit)) =>
                 /\ \A f \in {"resolve", "get", "embed", "search", "meta", "set"} :
                       c[f] = IF f \in StepsBefore(slot[s].pc) THEN 1 ELSE 0
                 /\ c.rerank = IF slot[s].pc \in {"meta", "cache_set", "done"} /\ reranks
                               THEN 1 ELSE 0
           /\ slot[s].pc = "search" => slot[s].query_embedding = <<DIMENSION>>
           /\ c.search > 0 => slot[s].g.provider_len = DIMENSION
           /\ Started(s) =>
                 /\ c.set <= c.meta /\ c.meta <= c.search /\ c.rerank <= c.search
                 /\ c.search <= c.embed /\ c.embed <= c.get /\ c.get <= c.resolve
                 /\ c.resolve <= 1
           /\ (Done(s) /\ ~ResponseOf(s).cache_hit) => slot[s].status = 200

C20_Witness ==
    \E s \in Slots :
        /\ Done(s) /\ ~ResponseOf(s).cache_hit
        /\ RequestOf(s).use_reranker /\ ResponseOf(s).results # <<>>
        /\ slot[s].calls = [resolve |-> 1, get |-> 1, embed |-> 1, search |-> 1,
                            rerank |-> 1, meta |-> 1, set |-> 1]

\* C21: a request answered on the miss path has called cache.set once, with
\* the key it read; while the cache stays reachable and untouched after the
\* write, the store holds under that key the response's results and
\* total_found with the default TTL, and a get of the key returns them.
C21_MissWritesOneEntry ==
    \A s \in Slots :
        (Done(s) /\ ~ResponseOf(s).cache_hit) =>
            /\ slot[s].calls.set = 1 /\ slot[s].calls.get = 1
            /\ slot[s].cache_key = generate_cache_key(RequestOf(s).project_id,
                                                      ResponseOf(s).corpus_version,
                                                      RequestOf(s).query)
            /\ slot[s].g.clean =>
                  LET data == [results |-> DumpResults(ResponseOf(s).results),
                               total_found |-> ResponseOf(s).total_found]
                  IN /\ slot[s].cache_key \in DOMAIN store
                     /\ store[slot[s].cache_key].value = JsonDumps(data)
                     /\ store[slot[s].cache_key].ex = 3600
                     /\ get(slot[s].cache_key) = [raised |-> FALSE, value |-> <<data>>]

C21_Witness ==
    \E s \in Slots :
        /\ Done(s) /\ ~ResponseOf(s).cache_hit /\ slot[s].g.clean
        /\ ResponseOf(s).results # <<>>
        /\ ResponseOf(s).total_found > Len(ResponseOf(s).results)
        /\ store[slot[s].cache_key].ex = 3600

\* The failures of the embedding, the hybrid search, the reranker and the
\* metadata lookup.
PipelineFailures == {"provider", "dimension", "storage", "rerank", "invalid_result"}

\* C22: a request whose embedding, hybrid search, reranking or metadata
\* lookup failed has no response, an error status and no cache write, and
\* the step in which a request fails leaves the cache store as it was.
C22_FailureLeavesNoTrace ==
    /\ [](\A s \in Slots :
            (Failed(s) /\ slot[s].exc.kind \in PipelineFailures) =>
                /\ slot[s].response = <<>>
                /\ slot[s].status \in {404, 500}
                /\ slot[s].calls.set = 0)
    /\ [][\A s \in Slots :
            (slot[s].pc # "failed" /\ slot'[s].pc = "failed") => store' = store]_vars

C22_Witness ==
    \E s \in Slots :
        /\ Failed(s) /\ slot[s].exc.kind = "rerank"
        /\ slot[s].calls.embed = 1 /\ slot[s].calls.search = 1
        /\ slot[s].calls.set = 0 /\ slot[s].response = <<>>
        /\ slot[s].cache_key \notin DOMAIN store

\* C23: every successful response, served from the cache or computed, carries
\* at most top_k results.
C23_ResultsWithinTopK ==
    \A s \in Slots :
        Done(s) => Len(ResponseOf(s).results) <= RequestOf(s).top_k

\* C24: the step in which a request fails changes nothing but that request:
\* the other requests, the cache, the corpus and the connections held by
\* others stay as they were and no connection stays checked out for it; and
\* every other request in flight still reaches its response or its own error.
C24_FailureIsolated ==
    /\ [][\A s \in Slots :
            (slot[s].pc # "failed" /\ slot'[s].pc = "failed") =>
                /\ \A t \in Slots \ {s} : slot'[t] = slot[t]
                /\ <<store, client, redisUp, silent, version, present, busy, svc>>'
                       = <<store, client, redisUp, silent, version, present, busy, svc>>
                /\ slot'[s].conn = 0]_vars
    /\ \A s, t \in Slots :
          (s # t /\ Failed(s) /\ Started(t)) ~> (Done(t) \/ Failed(t))

C24_Witness ==
    \E s, t \in Slots :
        /\ Failed(s) /\ slot[s].exc.kind \in {"storage", "provider"}
        /\ slot[t].pc = "cache_set" /\ slot[t].calls.meta = 1

\* C25: a request waiting for the cache store gets on even when the store
\* never replies: it reaches a response or an error.
C25_CacheCallBounded ==
    \A s \in Slots :
        (slot[s].pc \in {"cache_get", "cache_set"}) ~> (Done(s) \/ Failed(s))

\* C26: a request that reached Done or Failed holds no storage connection,
\* whichever way it left its last `async with` block.
C26_ConnectionsReleased ==
    \A s \in Slots : (Done(s) \/ Failed(s)) => (slot[s].conn = 0 /\ ~slot[s].in_block)

C26_Witness ==
    \E s, t \in Slots :
        /\ Failed(s) /\ slot[s].exc.kind = "not_found" /\ slot[s].calls.resolve = 1
        /\ Failed(t) /\ slot[t].exc.kind = "storage" /\ slot[t].calls.meta = 1
        /\ CheckedOut = busy

\* C27: a request holds no storage connection unless it is inside one of the
\* three database steps, so none while it awaits the cache store or the
\* embedding provider, and never more than one.
C27_NoConnectionAcrossAwaits ==
    \A s \in Slots :
        /\ slot[s].conn <= 1
        /\ slot[s].pc \in {"cache_get", "embed", "cache_set"} => slot[s].conn = 0
        /\ slot[s].conn = 1 => (slot[s].pc \in DbSteps /\ slot[s].in_block)

C27_Witness ==
    \E s, t \in Slots :
        /\ slot[s].pc = "embed" /\ slot[s].conn = 0 /\ slot[s].calls.resolve = 1
        /\ slot[t].pc = "search" /\ slot[t].conn = 1

\* C28: at most PoolMaxSize connections are checked out, and every submitted
\* request reaches Done or Failed.
C28_PoolBoundedNoDeadlock ==
    /\ [](CheckedOut <= PoolMaxSize)
    /\ \A s \in Slots : Started(s) ~> (Done(s) \/ Failed(s))

C28_Witness ==
    \E s, t \in Slots :
        /\ CheckedOut = PoolMaxSize
        /\ slot[s].pc = "search" /\ slot[s].conn = 1
        /\ slot[t].pc = "meta" /\ ~slot[t].in_block

\* C29: within one request no dependency is called more than once, and a
\* request that failed in a call made that call exactly once.
C29_EachDependencyOnce ==
    \A s \in Slots :
        /\ \A f \in DOMAIN slot[s].calls : slot[s].calls[f] <= 1
        /\ (Failed(s) /\ slot[s].exc.kind = "provider") =>
               (slot[s].calls.embed = 1 /\ slot[s].calls.search = 0)
        /\ (Failed(s) /\ slot[s].exc.kind = "rerank") =>
               (slot[s].calls.rerank = 1 /\ slot[s].calls.search = 1 /\ slot[s].calls.meta = 0)
        /\ (Done(s) /\ ~ResponseOf(s).cache_hit) =>
               /\ slot[s].calls.resolve = 1 /\ slot[s].calls.get = 1
               /\ slot[s].calls.embed = 1 /\ slot[s].calls.search = 1
               /\ slot[s].calls.meta = 1 /\ slot[s].calls.set = 1

C29_Witness ==
    \E s \in Slots :
        /\ Failed(s) /\ slot[s].exc.kind = "provider"
        /\ slot[s].calls = [ZeroCalls EXCEPT !.resolve = 1, !.get = 1, !.embed = 1]

LookupProbes == { i \in DOMAIN probe : probe[i].fn = "_get_project_info" }

\* C30: _get_project_info looks the identifier up as a slug first and as an id
\* only when no slug matched and the identifier parses as a UUID; a slug match
\* wins over an id match; it finds no project exactly when no row has the
\* identifier as its slug and none has it as its id.
C30_SlugFirstThenId ==
    \A i \in LookupProbes :
        LET projects == probe[i].args[1]
            ident == probe[i].args[2]
            out == probe[i].out
            slugHits == { p \in projects : p.slug = ident }
            idHits == { p \in projects : ParsesAsUUID(ident) /\ p.id = ident }
        IN /\ out.selects[1] = "slug"
           /\ ("id" \in Range(out.selects)) <=> (slugHits = {} /\ ParsesAsUUID(ident))
           /\ slugHits # {} => (out.row # <<>> /\ out.row[1] \in slugHits)
           /\ (slugHits = {} /\ idHits # {}) => (out.row # <<>> /\ out.row[1] \in idHits)
           /\ (out.row = <<>>) <=> (slugHits = {} /\ idHits = {})

C30_Witness ==
    \E i, j \in LookupProbes :
        /\ probe[i].args[2] = "U1"
        /\ \E p, q \in probe[i].args[1] : p.slug = "U1" /\ q.id = "U1" /\ p # q
        /\ probe[i].out.row = <<[id |-> "U3", slug |-> "U1"]>>
        /\ probe[j].args[2] = "U2" /\ probe[j].out.selects = <<"slug", "id">>
        /\ probe[j].out.row = <<>>

\* The rows the hybrid search of a completed request returned, from the
\* chunks present when it ran.
RowsOf(s) ==
    hybrid_search(slot[s].g.docs, slot[s].project_uuid, RequestOf(s).query,
                  RequestOf(s).top_k * 2, RequestOf(s).category)

\* C31: a response computed on a miss with use_reranker and at least one
\* candidate lists the reranker's output for top_k, each result scored with
\* its rerank score; any other miss lists the first top_k rows in the
\* order storage returned them, each scored with its fused score.
C31_RerankOrTruncate ==
    \A s \in Slots :
        (Done(s) /\ ~ResponseOf(s).cache_hit) =>
            LET rows == RowsOf(s)
                results == ResponseOf(s).results
                top_k == RequestOf(s).top_k
                query == RequestOf(s).query
            IN IF RequestOf(s).use_reranker /\ rows # <<>>
               THEN LET out == rerank(query, RowsToDocuments(rows), top_k)
                    IN /\ Len(results) = Len(out)
                       /\ \A i \in DOMAIN results :
                             /\ results[i].id = UUID(out[i].id)
                             /\ results[i].score = out[i].rerank_score
                             /\ results[i].score = RankerScore(out[i].id, query)
                       /\ \A i, j \in DOMAIN results :
                             i < j => results[i].score >= results[j].score
               ELSE /\ Len(results) = IF Len(rows) < top_k THEN Len(rows) ELSE top_k
                    /\ \A i \in DOMAIN results :
                          /\ results[i].id = rows[i].chunk_id
                          /\ results[i].score = rows[i].score
                          /\ results[i].score = FusedScore(StrOfUUID(rows[i].chunk_id), query)

C31_Witness ==
    \E s \in Slots :
        /\ Done(s) /\ ~ResponseOf(s).cache_hit /\ RequestOf(s).use_reranker
        /\ Len(RowsOf(s)) = 2
        /\ ResponseOf(s).results # <<>>
        /\ ResponseOf(s).results[1].id # RowsOf(s)[1].chunk_id
        /\ ResponseOf(s).results[1].score # RowsOf(s)[2].score

\* C32: a response echoes the query and the project_id of its request and
\* carries the version the request resolved; it is marked cache_hit exactly
\* when the request read an entry and ran no search of its own.
C32_ResponseEchoesRequest ==
    \A s \in Slots :
        Done(s) =>
            /\ ResponseOf(s).query = RequestOf(s).query
            /\ ResponseOf(s).project_id = RequestOf(s).project_id
            /\ ResponseOf(s).corpus_version = slot[s].corpus_version
            /\ slot[s].cache_key[3] = ResponseOf(s).corpus_version
            /\ ResponseOf(s).cache_hit <=> slot[s].g.entry # <<>>
            /\ ResponseOf(s).cache_hit <=> (slot[s].calls.search = 0 /\ slot[s].calls.set = 0)
            /\ slot[s].status = 200

C32_Witness ==
    \E s \in Slots :
        /\ Done(s) /\ ResponseOf(s).cache_hit
        /\ RequestOf(s).project_id = "U1" /\ ResponseOf(s).project_id = "U1"
        /\ slot[s].calls.search = 0

\* C33: the corpus_version of a response is the version the tenant had when
\* the results were computed, for a fresh response and for one served from
\* the cache.
C33_VersionOfTheData ==
    \A s \in Slots :
        Done(s) => ResponseOf(s).corpus_version = slot[s].g.data_version

\* C34: the chunk_index of every returned result is the chunk's ordinal in
\* its document.
C34_ChunkIndexIsOrdinal ==
    \A s \in Slots :
        Done(s) =>
            \A i \in DOMAIN ResponseOf(s).results :
                ResponseOf(s).results[i].chunk_index
                    = Chunks[StrOfUUID(ResponseOf(s).results[i].id)].chunk_index

\* C35: a response computed on a miss comes from a hybrid search issued with
\* the id of the project the identifier resolves to, the embedding of the
\* right dimension, the query text, the limit 2 * top_k and the request's
\* category; its total_found is the number of rows that search returned,
\* and it lists no more results than that.
C35_SearchArguments ==
    \A s \in Slots :
        (Done(s) /\ ~ResponseOf(s).cache_hit) =>
            /\ slot[s].g.search_args
                 = << LookupProject(RequestOf(s).project_id)[1].id,
                      <<DIMENSION>>,
                      RequestOf(s).query,
                      2 * RequestOf(s).top_k,
                      RequestOf(s).category >>
            /\ ResponseOf(s).total_found = Len(RowsOf(s))
            /\ ResponseOf(s).total_found <= 2 * RequestOf(s).top_k
            /\ Len(ResponseOf(s).results) <= ResponseOf(s).total_found

C35_Witness ==
    \E s \in Slots :
        /\ Done(s) /\ ~ResponseOf(s).cache_hit
        /\ RequestOf(s).category = "api" /\ RequestOf(s).project_id = "alpha"
        /\ slot[s].g.search_args[1] = "U1"
        /\ ResponseOf(s).total_found = 1

CacheProbes == { i \in DOMAIN probe : probe[i].fn \in {"get", "set", "delete", "ping"} }

\* C36: no CacheClient method lets an exception escape; without a client or
\* with the server unreachable get returns None and set, delete and ping
\* return False, leaving the store alone; get returns None for a stored
\* value that is not JSON.
C36_CacheClientNeverRaises ==
    \A i \in CacheProbes :
        LET call == probe[i]
            failed == ~call.connected \/ ~call.reachable
        IN /\ ~call.out.raised
           /\ failed =>
                 /\ call.out.value = IF call.fn = "get" THEN <<>> ELSE FALSE
                 /\ call.fn # "delete" => call.after = call.before
           /\ (~failed /\ call.fn # "get") => call.out.value = TRUE
           /\ (call.fn = "get" /\ call.args[1] \in DOMAIN call.before
                 /\ ~IsJson(call.before[call.args[1]].value)) => call.out.value = <<>>

C36_Witness ==
    \E i \in CacheProbes :
        /\ probe[i].fn = "delete" /\ IsPattern(probe[i].args[1])
        /\ probe[i].connected /\ ~probe[i].reachable
        /\ \E k \in DOMAIN probe[i].before : KeyMatches(probe[i].args[1], k)
        /\ probe[i].out = [raised |-> FALSE, value |-> FALSE]

\* C37: a delete that succeeds removes, for a pattern, exactly the stored
\* keys that match it and, for a plain key, that key if it is stored; every
\* other entry stays as it was and a get of a removed key finds nothing.
C37_DeleteRemovesExactlyMatches ==
    \A i \in CacheProbes :
        (probe[i].fn = "delete" /\ probe[i].out.value) =>
            LET key == probe[i].args[1]
                removed == IF IsPattern(key)
                           THEN { k \in DOMAIN probe[i].before : KeyMatches(key, k) }
                           ELSE { key } \cap DOMAIN probe[i].before
            IN /\ DOMAIN probe[i].after = (DOMAIN probe[i].before) \ removed
               /\ \A k \in DOMAIN probe[i].after : probe[i].after[k] = probe[i].before[k]
               /\ (store = probe[i].after /\ client /\ redisUp) =>
                     \A k \in removed : get(k) = [raised |-> FALSE, value |-> <<>>]

C37_Witness ==
    \E i \in CacheProbes :
        /\ probe[i].fn = "delete" /\ probe[i].out.value
        /\ probe[i].args[1] = ProjectPattern("alpha")
        /\ DOMAIN probe[i].before = CacheKeys
        /\ DOMAIN probe[i].after = { generate_cache_key("beta", 1, "q1") }
        /\ store = probe[i].after

\* A get that follows a set of the same key, with the time between them.
GetAfterSet ==
    /\ Len(probe) = 2
    /\ probe[1].fn = "get" /\ probe[2].fn = "set"
    /\ probe[1].args[1] = probe[2].args[1]
    /\ probe[2].out.value
SetValue == probe[2].args[2]
SetTTL == probe[2].args[3]
Between == probe[2].since - probe[1].since

\* C38: a get returns the value written by set(key, value, ttl=t) while
\* less than t seconds have passed, 3600 when no ttl was given, and nothing
\* afterwards.
C38_EntryLivesForTTL ==
    GetAfterSet =>
        LET t == IF SetTTL = <<>> THEN 3600 ELSE SetTTL[1]
        IN probe[1].out.value = IF Between < t THEN <<SetValue>> ELSE <<>>

LifecycleProbes == { i \in DOMAIN probe : "was" \in DOMAIN probe[i] }

\* C39: connect on a connected client makes nothing new and disconnect on a
\* disconnected client shuts nothing; after disconnect the client is not
\* connected, a DatabaseClient query raises RuntimeError, health_check and
\* ping return False; after a connect that succeeded the client is connected
\* and its calls reach the server again.
C39_LifecycleIdempotent ==
    /\ \A i \in LifecycleProbes :
          LET call == probe[i]
          IN /\ call.fn \in {"db.connect", "cache.connect"} =>
                   (call.was => (~call.created /\ call.out = "ok"))
             /\ call.fn \in {"db.disconnect", "cache.disconnect"} =>
                   (call.closed = call.was /\ call.out = "ok")
             /\ call.fn = "db.query" => (call.out = "RuntimeError" <=> ~call.was)
             /\ call.fn = "db.health_check" => (~call.was => call.out = FALSE)
             /\ call.fn = "cache.ping" => (call.out = call.was)
    /\ probe # <<>> /\ 1 \in LifecycleProbes =>
          /\ (probe[1].fn = "db.connect" /\ probe[1].out = "ok") => dbPool
          /\ probe[1].fn = "db.disconnect" => ~dbPool
          /\ probe[1].fn = "cache.connect" => client
          /\ probe[1].fn = "cache.disconnect" => ~client

C39_Witness ==
    /\ Len(probe) = 2
    /\ probe[2].fn = "db.connect" /\ ~probe[2].was /\ probe[2].created
    /\ probe[1].fn = "db.query" /\ probe[1].out = "ok"
    /\ dbPool

\* C40: the Reranker instance has loaded its model once, whatever rerank
\* calls were made on it, and holds the model it loaded.
C40_ModelLoadedOnce ==
    /\ [](svc.loads = 1 /\ svc.ranker = <<DEFAULT_MODEL>>)
    /\ [][svc' = svc]_vars

C40_Witness ==
    \E i \in RerankProbes :
        /\ probe[i].args[2] # <<>>
        /\ probe[i].ranker_calls = 1
        /\ svc.loads = 1

====
